---- MODULE Spec2Model ----
(***************************************************************************)
(* GCache ring buffer (gcache/src/gcache_rb_store.cpp).                    *)
(*                                                                         *)
(* Addresses are offsets from start_, counted in allocation units          *)
(* (MemOps::ALIGNMENT bytes).  The mapped region [start_, end_) is         *)
(* 0 .. RingLen.  mem[p] is what a BufferHeader read at offset p yields:   *)
(* a header record, or Garbage when the bytes there are payload or a       *)
(* partly overwritten header.                                              *)
(***************************************************************************)
EXTENDS Integers, Sequences, FiniteSets, TLC

\* ------------------------------------------------------------- bounds
RingLen   == 11      \* end_ - start_, in units
MaxSeqno  == 3       \* seqnos handed out by the sequencer: 1 .. MaxSeqno
MaxSkew   == 2       \* cap on how far size_used_ may fall below the bytes in use
MaxData   == 1       \* payload contents written by callers: 1 .. MaxData

\* ---------------------------------------------------------- constants
BHSize     == 2      \* sizeof(BufferHeader), in units
SEQNO_NONE == 0
SEQNO_ILL  == -1
Null       == -1     \* null pointer

start_      == 0
end_        == RingLen
size_cache_ == end_ - start_ - BHSize

Offsets  == start_ .. (end_ - BHSize)      \* where a header fits
Seqnos   == 1 .. MaxSeqno
DataVals == 1 .. MaxData

\* ----------------------------------------------------- buffer headers
\* data stands for the payload bytes that follow the header
BH(size, seqno_g, released, data) ==
    [size |-> size, seqno_g |-> seqno_g, released |-> released, data |-> data]

Stale   == 0                                \* payload nobody has written
ClearBH == BH(0, SEQNO_NONE, FALSE, Stale)  \* BH_clear: all-zero header
Garbage == BH(-1, SEQNO_NONE, FALSE, Stale) \* not a header: unknown bytes

BH_is_released(bh) == bh.released
BH_is_clear(bh)    == bh = ClearBH
IsGarbage(bh)      == bh.size = -1

Abs(x) == IF x < 0 THEN -x ELSE x

\* size_t arithmetic: a value below zero stands for its residue modulo the
\* word size, which is above every in-range value.
ULt(a, b) == IF (a < 0) = (b < 0) THEN a < b ELSE b < 0
ULe(a, b) == a = b \/ ULt(a, b)

\* Store header h at offset p: headers overlapping [p, p+BHSize) are
\* destroyed, unless zero bytes are written over zero bytes.
WriteBH(mem, p, h) ==
    [q \in DOMAIN mem |->
        IF q = p THEN h
        ELSE IF Abs(q - p) < BHSize
             THEN (IF h = ClearBH /\ mem[q] = ClearBH THEN ClearBH ELSE Garbage)
             ELSE mem[q]]

\* Payload d is stored in buffer [p, p+size), at [p+BHSize, p+size).
WritePayload(mem, p, size, d) ==
    [q \in DOMAIN mem |->
        IF q = p THEN [mem[q] EXCEPT !.data = d]
        ELSE IF q > p /\ q < p + size THEN Garbage ELSE mem[q]]

\* memset(a, 0, n)
Zero(mem, a, n) ==
    [q \in DOMAIN mem |->
        IF q >= a /\ q + BHSize <= a + n THEN ClearBH
        ELSE IF q + BHSize > a /\ q < a + n
             THEN (IF mem[q] = ClearBH THEN ClearBH ELSE Garbage)
             ELSE mem[q]]

\* ------------------------------------------------------- seqno index
\* seqno2ptr_: seqno -> offset of the buffer's header, Null for a hole.
EmptyIndex == [s \in Seqnos |-> Null]

IndexSet(idx)   == {s \in Seqnos : idx[s] # Null}
SetMin(S)       == CHOOSE x \in S : \A y \in S : x <= y
SetMax(S)       == CHOOSE x \in S : \A y \in S : x >= y
index_front(idx) == SetMin(IndexSet(idx))
index_back(idx)  == SetMax(IndexSet(idx))

\* ------------------------------------------------------- ring buffer
\* The RingBuffer object: rb.ub records that the code read a header from
\* bytes that hold none, or moved a pointer outside the mapping.
RB(mem, first, next, size_trail, size_free, size_used, seqno2ptr, ub) ==
    [mem |-> mem, first |-> first, next |-> next, size_trail |-> size_trail,
     size_free |-> size_free, size_used |-> size_used,
     seqno2ptr |-> seqno2ptr, ub |-> ub]

Res(rb, ret) == [rb |-> rb, ret |-> ret]

\* Header read at p; a read outside the mapping or of non-header bytes
\* yields Garbage.
HdrAt(rb, p) == IF p \in DOMAIN rb.mem THEN rb.mem[p] ELSE Garbage

freeze_purge_at_seqno_ == SEQNO_ILL

skip_purge(seqno) ==
    freeze_purge_at_seqno_ # SEQNO_ILL /\ seqno >= freeze_purge_at_seqno_

empty_buffer(rb, p) ==
    [rb EXCEPT !.mem[p].seqno_g = SEQNO_ILL]

\* RingBuffer::discard(bh)
discard(rb, p) ==
    [rb EXCEPT !.size_free = @ + rb.mem[p].size,
               !.mem[p].seqno_g = SEQNO_ILL]

\* Faulty variant of the loop body: after "do { ++i; }" it erases the entry
\* i has advanced to (when there is one) in place of the entry j.
discard_seqnos_body_erase_i(rb, j) ==
    LET p     == rb.seqno2ptr[j]
        bh    == HdrAt(rb, p)
        above == {s \in IndexSet(rb.seqno2ptr) : s > j}
        i     == IF above = {} THEN j ELSE SetMin(above)
    IN  IF IsGarbage(bh) THEN Res([rb EXCEPT !.ub = TRUE], FALSE)
        ELSE IF BH_is_released(bh)
             THEN Res(discard([rb EXCEPT !.seqno2ptr[i] = Null], p), TRUE)
             ELSE Res(rb, FALSE)

\* Faulty variant of the loop body: the entry is erased and its buffer
\* discarded whether or not the buffer is released.
discard_seqnos_body_unpinned(rb, j) ==
    LET p  == rb.seqno2ptr[j]
        bh == HdrAt(rb, p)
    IN  IF IsGarbage(bh) THEN Res([rb EXCEPT !.ub = TRUE], FALSE)
        ELSE Res(discard([rb EXCEPT !.seqno2ptr[j] = Null], p), TRUE)

\* RingBuffer::discard_seqnos, one pass of the loop body for the entry j:
\* the entry is erased and its buffer discarded when the buffer is released.
\* ret tells whether the loop goes on.
discard_seqnos_body(rb, j) ==
    LET p  == rb.seqno2ptr[j]
        bh == HdrAt(rb, p)
    IN  IF skip_purge(j) THEN Res(rb, FALSE)
        ELSE IF IsGarbage(bh) THEN Res([rb EXCEPT !.ub = TRUE], FALSE)
        ELSE IF BH_is_released(bh)
             THEN Res(discard([rb EXCEPT !.seqno2ptr[j] = Null], p), TRUE)
             ELSE Res(rb, FALSE)

\* RingBuffer::discard_seqnos over the index entries with seqno <= upto,
\* in increasing order.
RECURSIVE discard_seqnos(_, _)
discard_seqnos(rb, upto) ==
    LET range == {s \in IndexSet(rb.seqno2ptr) : s <= upto} IN
    IF range = {} THEN Res(rb, TRUE)
    ELSE LET r == discard_seqnos_body(rb, SetMin(range)) IN
         IF r.ret THEN discard_seqnos(r.rb, upto) ELSE r

\* RingBuffer::discard_seqno(seqno): everything up to and including seqno
discard_seqno(rb, seqno) == discard_seqnos(rb, seqno)

\* Faulty variant of found_space: no BH_clear at the new next_.
found_space_no_clear(rb, ret, size) ==
    LET next1 == ret + size
        m1 == WriteBH(rb.mem, ret, BH(size, SEQNO_NONE, FALSE, Stale))
    IN  Res([rb EXCEPT !.size_used = @ + size,
                       !.size_free = @ - size,
                       !.mem  = m1,
                       !.next = next1,
                       !.ub   = @ \/ next1 \notin DOMAIN m1],
            ret)

\* get_new_buffer, label found_space
found_space(rb, ret, size) ==
    LET next1 == ret + size
        m1 == WriteBH(rb.mem, ret, BH(size, SEQNO_NONE, FALSE, Stale))
        m2 == IF next1 \in DOMAIN m1 THEN WriteBH(m1, next1, ClearBH) ELSE m1
    IN  Res([rb EXCEPT !.size_used = @ + size,
                       !.size_free = @ - size,
                       !.mem  = m2,
                       !.next = next1,
                       !.ub   = @ \/ next1 \notin DOMAIN m1],
            ret)

\* Faulty variant of the failure return: size_trail_ stays as the tentative
\* wrap has set it.
no_space_keeps_trail(rb) == Res(rb, Null)

\* get_new_buffer, the failure return inside the loop
no_space(rb) ==
    Res(IF rb.next >= rb.first THEN [rb EXCEPT !.size_trail = 0] ELSE rb, Null)

\* get_new_buffer, the loop "while (size_t(first_ - ret) < size_next)"
RECURSIVE discard_loop(_, _, _)
discard_loop(rb, ret, size) ==
    LET size_next == size + BHSize IN
    IF ~ULt(rb.first - ret, size_next)
    THEN found_space(rb, ret, size)
    ELSE
      LET bh == HdrAt(rb, rb.first) IN
      IF IsGarbage(bh) THEN no_space([rb EXCEPT !.ub = TRUE])
      ELSE IF ~BH_is_released(bh) THEN no_space(rb)
      ELSE
        LET d == IF bh.seqno_g > 0 THEN discard_seqno(rb, bh.seqno_g)
                                   ELSE Res(rb, TRUE)
        IN
        IF ~d.ret THEN no_space(d.rb)
        ELSE
          LET rb1 == [d.rb EXCEPT !.first = @ + bh.size]
              nh  == HdrAt(rb1, rb1.first)
          IN
          IF IsGarbage(nh) THEN no_space([rb1 EXCEPT !.ub = TRUE, !.first = rb.first])
          ELSE IF nh.size = 0
          THEN LET rb2 == [rb1 EXCEPT !.first = start_] IN
               IF end_ - ret >= size_next
               THEN found_space([rb2 EXCEPT !.size_trail = 0], ret, size)
               ELSE discard_loop([rb2 EXCEPT !.size_trail = end_ - ret],
                                 start_, size)
          ELSE discard_loop(rb1, ret, size)

\* Faulty variant of get_new_buffer: on roll-over the buffer is placed at
\* start_ without waiting for first_ to get out of the way.
get_new_buffer_unchecked(rb, size) ==
    LET size_next == size + BHSize IN
    IF rb.next >= rb.first
    THEN IF end_ - rb.next >= size_next
         THEN found_space(rb, rb.next, size)
         ELSE found_space([rb EXCEPT !.size_trail = end_ - rb.next],
                          start_, size)
    ELSE discard_loop(rb, rb.next, size)

\* RingBuffer::get_new_buffer(size)
get_new_buffer(rb, size) ==
    LET size_next == size + BHSize IN
    IF rb.next >= rb.first
    THEN IF end_ - rb.next >= size_next
         THEN found_space(rb, rb.next, size)
         ELSE discard_loop([rb EXCEPT !.size_trail = end_ - rb.next],
                           start_, size)
    ELSE discard_loop(rb, rb.next, size)

\* Faulty variant of malloc: no comparison with half of the cache.
malloc_any_size(rb, size) ==
    IF ULe(size, size_cache_ - rb.size_used)
    THEN get_new_buffer(rb, size)
    ELSE Res(rb, Null)

\* RingBuffer::malloc(size)
malloc(rb, size) ==
    IF size <= size_cache_ \div 2 /\ ULe(size, size_cache_ - rb.size_used)
    THEN get_new_buffer(rb, size)
    ELSE Res(rb, Null)

\* Faulty variant of free: an ordered buffer is dropped from the index when
\* it is freed.
free_erases_entry(rb, p) ==
    LET bh  == rb.mem[p]
        rb1 == [rb EXCEPT !.size_used = @ - bh.size]
    IN  IF bh.seqno_g = SEQNO_NONE
        THEN discard(empty_buffer(rb1, p), p)
        ELSE [rb1 EXCEPT !.seqno2ptr[bh.seqno_g] = Null]

\* Faulty variant of free: the bytes of an ordered buffer are credited to
\* size_free_ at once, although the buffer stays in the ring.
free_credits_ordered(rb, p) ==
    LET bh  == rb.mem[p]
        rb1 == [rb EXCEPT !.size_used = @ - bh.size]
    IN  IF bh.seqno_g = SEQNO_NONE
        THEN discard(empty_buffer(rb1, p), p)
        ELSE [rb1 EXCEPT !.size_free = @ + bh.size]

\* Faulty variant of free: size_used_ is decremented only when the buffer is
\* discarded on the spot.
free_keeps_ordered_used(rb, p) ==
    LET bh  == rb.mem[p]
    IN  IF bh.seqno_g = SEQNO_NONE
        THEN discard(empty_buffer([rb EXCEPT !.size_used = @ - bh.size], p), p)
        ELSE rb

\* RingBuffer::free(bh)
free(rb, p) ==
    LET bh  == rb.mem[p]
        rb1 == [rb EXCEPT !.size_used = @ - bh.size]
    IN  IF bh.seqno_g = SEQNO_NONE
        THEN discard(empty_buffer(rb1, p), p)
        ELSE rb1

\* RingBuffer::realloc, "adjacent buffer allocation failed, return it back"
return_back(rb, adj_ptr, adj_size, size_trail_saved) ==
    LET rb1 == [rb EXCEPT !.next = adj_ptr,
                          !.mem  = WriteBH(@, adj_ptr, ClearBH),
                          !.size_used = @ - adj_size,
                          !.size_free = @ + adj_size]
    IN  IF rb1.next < rb1.first
        THEN [rb1 EXCEPT !.size_trail = size_trail_saved]
        ELSE rb1

\* Faulty variant of copy_and_free: the old buffer is freed, its payload not
\* copied.
free_without_copy(r, p, size) ==
    IF r.ret # Null THEN Res(free(r.rb, p), r.ret) ELSE r

\* RingBuffer::realloc, "find non-adjacent buffer", once malloc has
\* returned r: memcpy and free
copy_and_free(r, p, size) ==
    IF r.ret # Null
    THEN Res(free([r.rb EXCEPT !.mem = WritePayload(@, r.ret, size,
                                                    r.rb.mem[p].data)], p),
             r.ret)
    ELSE r

\* RingBuffer::realloc, "find non-adjacent buffer": malloc, memcpy, free
relocate(rb, p, size) == copy_and_free(malloc(rb, size), p, size)

\* RingBuffer::realloc, "first check if we can grow this buffer by
\* allocating adjacent buffer", once get_new_buffer(adj_size) has returned g
grow_adjacent(rb, p, size, adj_ptr, adj_size, g) ==
    IF g.ret = adj_ptr
    THEN Res([g.rb EXCEPT !.mem =
                 WritePayload([@ EXCEPT ![p].size = g.rb.next - p],
                              p, g.rb.next - p, g.rb.mem[p].data)], p)
    ELSE relocate(return_back(g.rb, adj_ptr, adj_size, rb.size_trail),
                  p, size)

\* RingBuffer::realloc(ptr, size)
realloc(rb, p, size) ==
    IF size > size_cache_ \div 2 THEN Res(rb, Null)
    ELSE
      LET bh       == rb.mem[p]
          adj_size == size - bh.size
          adj_ptr  == p + bh.size
      IN
      IF adj_size <= 0 THEN Res(rb, p)
      ELSE IF adj_ptr = rb.next
      THEN grow_adjacent(rb, p, size, adj_ptr, adj_size,
                         get_new_buffer(rb, adj_size))
      ELSE relocate(rb, p, size)

\* Faulty variant of reset: first_ and next_ are left where the scan put them.
reset_no_rewind(rb) ==
    [rb EXCEPT !.seqno2ptr  = EmptyIndex,
               !.size_free  = size_cache_,
               !.size_used  = 0,
               !.size_trail = 0,
               !.mem        = Zero(WriteBH(@, start_, ClearBH), start_, size_cache_)]

\* RingBuffer::reset(): drop every entry of this store from the index,
\* rewind, zero the cache area
reset(rb) ==
    [rb EXCEPT !.seqno2ptr  = EmptyIndex,
               !.first      = start_,
               !.next       = start_,
               !.size_free  = size_cache_,
               !.size_used  = 0,
               !.size_trail = 0,
               !.mem        = Zero(WriteBH(@, start_, ClearBH), start_, size_cache_)]

\* RingBuffer::estimate_space(zero_out)
estimate_space(rb, zero_out) ==
    IF rb.first < rb.next
    THEN LET used == rb.next - rb.first IN
         [rb EXCEPT !.size_used  = used,
                    !.size_free  = size_cache_ - used,
                    !.size_trail = 0,
                    !.mem = IF zero_out
                            THEN Zero(Zero(@, rb.next, end_ - rb.next),
                                      start_, rb.first - start_)
                            ELSE @]
    ELSE LET free_ == rb.first - rb.next + rb.size_trail - BHSize IN
         [rb EXCEPT !.size_free = free_,
                    !.size_used = size_cache_ - free_,
                    !.mem = IF zero_out
                            THEN Zero(Zero(@, end_ - rb.size_trail, rb.size_trail),
                                      rb.next, rb.first - rb.next)
                            ELSE @]

\* seqno_reset: "Seek the first unreleased buffer", starting with bh at p
RECURSIVE seek_unreleased(_, _, _)
seek_unreleased(rb, p, fuel) ==
    LET bh == HdrAt(rb, p) IN
    IF IsGarbage(bh) \/ fuel = 0 THEN [rb EXCEPT !.ub = TRUE]
    ELSE IF BH_is_released(bh)
    THEN LET f1 == p + bh.size
             f2 == IF bh.size = 0 /\ f1 # rb.next THEN start_ ELSE f1
         IN  seek_unreleased([rb EXCEPT !.first = f2], f2, fuel - 1)
    ELSE rb

\* seqno_reset: "Seek all the way to next_, invalidate seqnos and update
\* size_free_", with bh at p
RECURSIVE discard_locked(_, _, _)
discard_locked(rb, p, fuel) ==
    IF p = rb.next THEN rb
    ELSE LET bh == HdrAt(rb, p) IN
         IF IsGarbage(bh) \/ fuel = 0 THEN [rb EXCEPT !.ub = TRUE]
         ELSE IF bh.size > 0
         THEN discard_locked(IF bh.seqno_g # SEQNO_NONE
                             THEN discard(empty_buffer(rb, p), p) ELSE rb,
                             p + bh.size, fuel - 1)
         ELSE discard_locked(rb, start_, fuel - 1)

\* the index entries of seqno_reset's first loop lose their seqno
RECURSIVE invalidate_seqnos(_, _)
invalidate_seqnos(m, S) ==
    IF S = {} THEN m
    ELSE LET p == CHOOSE x \in S : TRUE IN
         invalidate_seqnos([m EXCEPT ![p].seqno_g = SEQNO_NONE], S \ {p})

\* RingBuffer::seqno_reset(zero_out)
seqno_reset(rb, zero_out) ==
    IF size_cache_ = rb.size_free THEN rb
    ELSE IF IndexSet(rb.seqno2ptr) = {} THEN rb
    ELSE
      LET bh  == rb.seqno2ptr[index_back(rb.seqno2ptr)]
          rb1 == [rb EXCEPT !.mem = invalidate_seqnos(@,
                     {rb.seqno2ptr[s] : s \in IndexSet(rb.seqno2ptr)})]
          rb2 == seek_unreleased([rb1 EXCEPT !.first = bh], bh, RingLen + 2)
      IN
      IF rb2.ub THEN rb2
      ELSE IF rb2.first = rb2.next THEN reset(rb2)
      ELSE
        LET rb3 == estimate_space(rb2, zero_out)
            rb4 == discard_locked(rb3, rb3.first + HdrAt(rb3, rb3.first).size,
                                  RingLen + 2)
        IN  IF rb4.next > rb4.first /\ rb4.first > start_
            THEN [rb4 EXCEPT !.mem = WriteBH(@, start_, ClearBH)]
            ELSE rb4

\* ---------------------------------------------------------- recovery
\* BH_test: the bytes pass for a buffer header (a clear one included).
\* Payload bytes are taken never to pass.
BH_test(bh) == ~IsGarbage(bh)

\* scan(), macro GCACHE_SCAN_BUFFER_TEST at ptr
SCAN_BUFFER_TEST(rb, ptr, segment_end) ==
    LET bh == HdrAt(rb, ptr) IN
    /\ BH_test(bh)
    /\ bh.size > 0
    /\ ptr + bh.size <= segment_end
    /\ BH_test(HdrAt(rb, ptr + bh.size))

\* The locals of scan() next to the object; hits records the collisions:
\* the seqno, the buffer scanned, the buffer of the index, same_data.
ScanState(rb, ptr, seqno_max, erase_up_to, seg_start, seg_end, scans) ==
    [rb |-> rb, ptr |-> ptr, seqno_max |-> seqno_max,
     erase_up_to |-> erase_up_to, segment_start |-> seg_start,
     segment_end |-> seg_end, segment_scans |-> scans, hits |-> {}]

Hit(s, new, old, same_data) ==
    [s |-> s, new |-> new, old |-> old, same |-> same_data]

\* Faulty variant of scan_collision: the buffer of the index is kept when
\* the contents differ.
scan_collision_keeps_old(sc, rb1, ptr) ==
    LET bh  == rb1.mem[ptr]
        s   == bh.seqno_g
        old == rb1.seqno2ptr[s]
        obh == rb1.mem[old]
        same_data == /\ bh.seqno_g = obh.seqno_g
                     /\ bh.size = obh.size
                     /\ bh.released = obh.released
                     /\ bh.data = obh.data
    IN  [sc EXCEPT !.rb = empty_buffer(rb1, ptr),
                   !.hits = @ \cup {Hit(s, ptr, old, same_data)},
                   !.ptr = ptr + bh.size]

\* scan(): "if (gu_unlikely(collision))" for the buffer at ptr, which has
\* been marked released in rb1
scan_collision(sc, rb1, ptr) ==
    LET bh  == rb1.mem[ptr]
        s   == bh.seqno_g
        old == rb1.seqno2ptr[s]
        obh == rb1.mem[old]
        same_data == /\ bh.seqno_g = obh.seqno_g
                     /\ bh.size = obh.size
                     /\ bh.released = obh.released
                     /\ bh.data = obh.data
        rb2 == empty_buffer(rb1, ptr)
    IN  IF same_data
        THEN [sc EXCEPT !.rb = rb2,
                        !.hits = @ \cup {Hit(s, ptr, old, TRUE)},
                        !.ptr = ptr + bh.size]
        ELSE [sc EXCEPT !.rb = empty_buffer(rb2, old),
                        !.erase_up_to = IF @ < s THEN s ELSE @,
                        !.hits = @ \cup {Hit(s, ptr, old, FALSE)},
                        !.ptr = ptr + bh.size]

\* scan(): one buffer that passed the test, at sc.ptr
scan_buffer(sc) ==
    LET ptr  == sc.ptr
        rb1  == [sc.rb EXCEPT !.mem[ptr].released = TRUE]
        bh   == rb1.mem[ptr]
        s    == bh.seqno_g
    IN
    IF s > 0 /\ s \in Seqnos
    THEN IF s <= sc.seqno_max /\ rb1.seqno2ptr[s] # Null
         THEN scan_collision(sc, rb1, ptr)
         ELSE [sc EXCEPT !.rb = [rb1 EXCEPT !.seqno2ptr[s] = ptr],
                         !.seqno_max = IF s > @ THEN s ELSE @,
                         !.ptr = ptr + bh.size]
    ELSE [sc EXCEPT !.rb = rb1, !.ptr = ptr + bh.size]

\* scan(): "while (GCACHE_SCAN_BUFFER_TEST)"
RECURSIVE scan_chain(_)
scan_chain(sc) ==
    IF SCAN_BUFFER_TEST(sc.rb, sc.ptr, sc.segment_end)
    THEN scan_chain(scan_buffer(sc))
    ELSE sc

\* scan(): "try to find the first one", stepping by scan_step
RECURSIVE scan_forward(_, _)
scan_forward(rb, ptr) ==
    IF ptr + BHSize < end_ /\ ~SCAN_BUFFER_TEST(rb, ptr, end_ - BHSize)
    THEN scan_forward(rb, ptr + 1)
    ELSE ptr

RECURSIVE scan_segments(_, _)

\* scan(): "end of segment, close it" and what follows in the round, for
\* the chain of buffers that ended at sc1.ptr
close_segment(sc1, offset) ==
      LET ptr == sc1.ptr
          \* end of segment, close it
          rb1 == IF ~BH_is_clear(HdrAt(sc1.rb, ptr))
                 THEN [sc1.rb EXCEPT !.mem = WriteBH(@, ptr, ClearBH)]
                 ELSE sc1.rb
      IN
      IF offset > 0 /\ sc1.segment_start = start_ + offset
      THEN scan_segments(
             [sc1 EXCEPT !.rb = [rb1 EXCEPT !.first = sc1.segment_start,
                                            !.size_trail = end_ - ptr],
                         !.segment_end = sc1.segment_start - BHSize,
                         !.segment_start = start_], offset)
      ELSE IF offset < 0 /\ sc1.segment_start = start_
      THEN LET rb2 == [rb1 EXCEPT !.next = ptr]
               p2  == scan_forward(rb2, ptr + BHSize)
           IN  IF SCAN_BUFFER_TEST(rb2, p2, end_ - BHSize)
               THEN scan_segments(
                      [sc1 EXCEPT !.rb = [rb2 EXCEPT !.first = p2],
                                  !.ptr = p2,
                                  !.segment_start = p2], offset)
               ELSE [sc1 EXCEPT !.rb = [rb2 EXCEPT !.first = start_],
                                !.ptr = p2]
      ELSE IF offset = 0 /\ sc1.segment_start = start_
      THEN [sc1 EXCEPT !.rb = [rb1 EXCEPT !.first = sc1.segment_start,
                                          !.next = ptr]]
      ELSE
        LET rb2 == IF offset >= 0 THEN [rb1 EXCEPT !.next = ptr] ELSE rb1
            rb3 == IF offset < 0 /\ sc1.segment_start > start_
                   THEN [rb2 EXCEPT !.size_trail = end_ - ptr]
                   ELSE IF offset > 0 /\ rb2.next > rb2.first
                        THEN [rb2 EXCEPT !.size_trail = 0]
                        ELSE rb2
        IN  scan_segments([sc1 EXCEPT !.rb = rb3], offset)

\* scan(): one round of "while (segment_scans < 2)" and the rounds after it
scan_segments(sc0, offset) ==
    IF ~(sc0.segment_scans < 2) THEN sc0
    ELSE close_segment(scan_chain([sc0 EXCEPT !.segment_scans = @ + 1,
                                              !.ptr = sc0.segment_start]),
                       offset)

\* RingBuffer::scan(offset, scan_step): result is the object after the scan,
\* erase_up_to and the collisions met
scan(rb, offset) ==
    LET known == offset >= 0 /\ start_ + offset + BHSize < end_ - BHSize
        sc == scan_segments(
                ScanState(rb, start_, SEQNO_ILL, -1,
                          IF known THEN start_ + offset ELSE start_,
                          end_ - BHSize,
                          IF offset >= 0 /\ ~known THEN 1 ELSE 0),
                offset)
    IN  [rb |-> sc.rb, ret |-> sc.erase_up_to, hits |-> sc.hits]

\* Faulty variant of the search for the gapless sequence: it runs down to
\* the front of the index, holes or not.
gapless_min_through_holes(rb, seqno_min, lowest) ==
    [seqno_min |-> index_front(rb.seqno2ptr), bad |-> FALSE]

\* recover(): "Scan downwards and bail out on the first hole"; r is at
\* seqno_min - 1.  bad: assert_ptr_seqno found a header that disagrees.
RECURSIVE gapless_min(_, _, _)
gapless_min(rb, seqno_min, lowest) ==
    LET r == seqno_min - 1 IN
    IF r >= index_front(rb.seqno2ptr) /\ rb.seqno2ptr[r] # Null
       /\ seqno_min > lowest
    THEN IF HdrAt(rb, rb.seqno2ptr[r]).seqno_g # r
         THEN [seqno_min |-> r, bad |-> TRUE]
         ELSE gapless_min(rb, r, lowest)
    ELSE [seqno_min |-> seqno_min, bad |-> FALSE]

\* recover(): empty and erase every entry below seqno_min
RECURSIVE erase_below(_, _)
erase_below(rb, seqno_min) ==
    LET low == {s \in IndexSet(rb.seqno2ptr) : s < seqno_min} IN
    IF low = {} THEN rb
    ELSE LET s == SetMin(low) IN
         erase_below([empty_buffer(rb, rb.seqno2ptr[s])
                         EXCEPT !.seqno2ptr[s] = Null], seqno_min)

\* recover(): "trim first_", with bh at p
RECURSIVE trim_first(_, _, _)
trim_first(rb, p, fuel) ==
    LET bh == HdrAt(rb, p) IN
    IF IsGarbage(bh) \/ fuel = 0 THEN [rb EXCEPT !.ub = TRUE]
    ELSE IF bh.seqno_g = SEQNO_ILL
    THEN LET n == p + bh.size IN
         trim_first(rb, IF HdrAt(rb, n).size = 0 THEN start_ ELSE n, fuel - 1)
    ELSE [rb EXCEPT !.first = p]

\* recover(): "trim next_", with bh at p; result is last_bh, or Null for
\* an inconsistency
RECURSIVE trim_next(_, _, _, _)
trim_next(rb, p, last_bh, fuel) ==
    IF p = rb.next THEN last_bh
    ELSE LET bh == HdrAt(rb, p) IN
         IF IsGarbage(bh) \/ fuel = 0 THEN Null
         ELSE IF bh.size > 0
         THEN IF p + bh.size > end_ - BHSize THEN Null
              ELSE trim_next(rb, p + bh.size,
                             IF bh.seqno_g > 0 THEN p ELSE last_bh, fuel - 1)
         ELSE trim_next(rb, start_, last_bh, fuel - 1)

\* recover(): "now discard all the locked-in buffers", with bh at p;
\* .bad for an inconsistency
RECURSIVE discard_unused(_, _, _)
discard_unused(rb, p, fuel) ==
    IF p = rb.next THEN [rb |-> rb, bad |-> FALSE]
    ELSE LET bh == HdrAt(rb, p) IN
         IF IsGarbage(bh) \/ fuel = 0 THEN [rb |-> rb, bad |-> TRUE]
         ELSE IF bh.size > 0
         THEN IF p + bh.size > end_ - BHSize THEN [rb |-> rb, bad |-> TRUE]
              ELSE discard_unused(
                     IF bh.seqno_g > 0 THEN free(rb, p)
                     ELSE [discard(empty_buffer(rb, p), p)
                              EXCEPT !.size_used = @ - bh.size],
                     p + bh.size, fuel - 1)
         ELSE discard_unused(rb, start_, fuel - 1)

\* recover(): next_ = BH_next(last_bh), BH_clear, estimate_space() and "now
\* discard all the locked-in buffers"
recover_space(rb3, last_bh) ==
    LET n   == last_bh + rb3.mem[last_bh].size
        rb4 == [rb3 EXCEPT !.next = n,
                           !.mem  = WriteBH(@, n, ClearBH)]
        rb5 == IF rb4.first < rb4.next
               THEN [rb4 EXCEPT !.size_trail = 0] ELSE rb4
        rb6 == estimate_space(rb5, FALSE)
    IN  discard_unused(rb6, rb6.first, RingLen + 2)

\* recover(): reset() when the buffers do not add up
recover_end(d) == IF d.bad THEN reset(d.rb) ELSE d.rb

\* recover(): "trim next_" and what follows, first_ being trimmed
recover_next(rb3, last_bh) ==
    IF rb3.ub THEN rb3
    ELSE IF last_bh = Null THEN reset(rb3)
    ELSE recover_end(recover_space(rb3, last_bh))

\* recover(): "trim first_" and what follows, with the index cut down to
\* the gapless range
recover_trim(rb3) ==
    recover_next(rb3, trim_next(rb3, rb3.seqno2ptr[index_back(rb3.seqno2ptr)],
                                rb3.seqno2ptr[index_back(rb3.seqno2ptr)],
                                RingLen + 2))

\* recover(): "find the last gapless seqno sequence" and what follows, with
\* scan() having found the non-empty index of rb1; g is the lower end found
recover_gapless(rb1, g) ==
    IF g.bad THEN reset(rb1)
    ELSE LET rb2 == IF g.seqno_min - 1 >= index_front(rb1.seqno2ptr)
                    THEN erase_below(rb1, g.seqno_min) ELSE rb1
         IN  recover_trim(trim_first(rb2, rb2.first, RingLen + 2))

\* recover(): all that follows scan(), which returned sr
recover_scanned(sr) ==
    LET lowest == sr.ret + 1
        rb1    == sr.rb
    IN
    IF IndexSet(rb1.seqno2ptr) = {} THEN reset(rb1)
    ELSE
      LET seqno_max == index_back(rb1.seqno2ptr) IN
      IF lowest = seqno_max THEN reset(rb1)
      ELSE IF HdrAt(rb1, rb1.seqno2ptr[seqno_max]).seqno_g # seqno_max
      THEN reset(rb1)
      ELSE recover_gapless(rb1, gapless_min(rb1, seqno_max, lowest))

\* RingBuffer::recover(offset, version)
recover(rb, offset) == recover_scanned(scan(rb, offset))

\* RingBuffer::RingBuffer: a new object over the file as the last process
\* left it; open_preamble(do_recover) with the offset read from the
\* preamble, then BH_clear at next_
construct(file, offset, do_recover) ==
    LET rb0 == RB(file, start_, start_, 0, size_cache_, 0, EmptyIndex, FALSE)
        rb1 == IF do_recover THEN recover(rb0, offset) ELSE rb0
    IN  [rb1 EXCEPT !.mem = WriteBH(@, rb1.next, ClearBH)]

\* ======================================================== EncMMap
\* gu_enc_mmap.cpp, gu_enc_pmemory_manager.cpp: the encrypted view of a
\* file.  Sizes and offsets are in units; one virtual or physical page is
\* page_size_ units.
\* ------------------------------------------------------------- bounds
VmemSize  == 5       \* vmem_size_: the size of the underlying file
MaxPool   == 2       \* a pool is asked for 1 .. MaxPool pages
MaxKey    == 2       \* file keys: 1 .. MaxKey
MaxVal    == 1       \* values the client writes: 1 .. MaxVal
MaxFaults == 8       \* cap on the faults counted for one access

\* ---------------------------------------------------------- constants
page_size_               == 2
encryption_start_offset_ == 1     \* PREAMBLE_LEN, less than a page
CACHE_ALLOC_PAGES_MIN    == 2
FLUSH_LIMIT              == 2     \* pages evicted by one pass
READ_AHEAD_CNT           == 2     \* read_ahead_cnt_ in READ mode
PROT_NONE                == 0
PROT_READ                == 1
PROT_RW                  == 3     \* PROT_READ | PROT_WRITE
NoPage                   == -1    \* a null PPage; no entry in vpage2ppage_

\* EncMMap::EncMMap: pages_cnt_ and last_page_size_
pages_cnt_ ==
    VmemSize \div page_size_ + (IF VmemSize % page_size_ # 0 THEN 1 ELSE 0)

last_page_size_ ==
    IF VmemSize % page_size_ # 0 THEN VmemSize % page_size_ ELSE page_size_

VPages   == 0 .. (pages_cnt_ - 1)
Units    == 0 .. (VmemSize - 1)
Keys     == 1 .. MaxKey
Vals     == 1 .. MaxVal
PoolSizes == 1 .. MaxPool
PPages   == 0 .. (MaxPool - 1)

is_last_page(page) == page = pages_cnt_ - 1

Min2(a, b) == IF a < b THEN a ELSE b

\* ------------------------------------------------------------- cipher
\* A byte, in memory or on file: the value v the client wrote, under the
\* key streams ks (pairs <<key, stream offset>>) it has been XORed with.
\* It reads as v when ks is empty and as noise otherwise.
Plain(v) == [v |-> v, ks |-> {}]

IsPlain(b) == b.ks = {}

\* AES-CTR at a stream offset: XOR with the key stream of (k, pos)
xor_stream(k, pos, b) ==
    [b EXCEPT !.ks = IF <<k, pos>> \in @ THEN @ \ {<<k, pos>>}
                     ELSE @ \cup {<<k, pos>>}]

Aes_ctr_encrypt(k, pos, b) == xor_stream(k, pos, b)
Aes_ctr_decrypt(k, pos, b) == xor_stream(k, pos, b)

\* ----------------------------------------------------- PMemoryManager
\* my_pages_ of a pool of n pages
my_pages(n) == [i \in 1 .. n |-> i - 1]

\* the constructor without the minimum
alloc_pages_cnt_unclamped(cnt) == cnt

\* PMemoryManager::PMemoryManager: the pages of a pool asked for cnt pages
\* (the maximum of 512 pages is out of the reach of MaxPool)
alloc_pages_cnt_(cnt) ==
    IF cnt < CACHE_ALLOC_PAGES_MIN THEN CACHE_ALLOC_PAGES_MIN ELSE cnt

\* PMemoryManager::alloc
PMemoryManager_alloc(m) ==
    IF m.free_pages = <<>>
    THEN [m |-> m, p |-> NoPage]
    ELSE [m |-> [m EXCEPT !.free_pages = SubSeq(@, 1, Len(@) - 1)],
          p |-> m.free_pages[Len(m.free_pages)]]

\* PMemoryManager::free
PMemoryManager_free(m, page) == [m EXCEPT !.free_pages = Append(@, page)]

\* PMemoryManager::free_all
free_all(m) ==
    IF m.alloc_pages_cnt # Len(m.free_pages)
    THEN [m EXCEPT !.free_pages = my_pages(m.alloc_pages_cnt)]
    ELSE m

\* ------------------------------------------------------------ EncMMap
\* the pages in vpage2ppage_
Mapped(m) == {n \in VPages : m.vpage2ppage[n] # NoPage}

\* the byte at the virtual offset u, read through the mapping of its page
vread(m, u) == m.pmem[m.vpage2ppage[u \div page_size_]][(u % page_size_) + 1]

\* memset(&vpage2protection_[..], prot, ..): every byte of the int is prot
memset_int(prot) == prot * 16843009

\* EncMMap::mprotectd
mprotectd(m, first_page_no, size, prot) ==
    IF size = page_size_
    THEN [m EXCEPT !.vpage2protection[first_page_no] = prot]
    ELSE LET pages_cnt == size \div page_size_
                          + (IF size % page_size_ # 0 THEN 1 ELSE 0)
         IN  [m EXCEPT !.vpage2protection =
                 [n \in VPages |->
                    IF n >= first_page_no /\ n < first_page_no + pages_cnt
                    THEN memset_int(prot) ELSE m.vpage2protection[n]]]

\* unencrypted_size of encrypt() and decrypt()
unencrypted_size(size, page_number) ==
    IF page_number * page_size_ < encryption_start_offset_
    THEN Min2(size, encryption_start_offset_) ELSE 0

\* EncMMap::encrypt(dst, src, size, page_number): dst is an offset of the
\* underlying file, src a virtual offset
encrypt(m, dst, src, size0, page_number) ==
    LET size == IF is_last_page(page_number) THEN last_page_size_ ELSE size0
        page_start_offset == page_number * page_size_
        unenc == unencrypted_size(size, page_number)
    IN  [m EXCEPT !.raw =
           [u \in Units |->
              IF u < dst \/ u >= dst + size THEN m.raw[u]
              ELSE IF u - dst < unenc THEN vread(m, src + (u - dst))
              ELSE Aes_ctr_encrypt(m.key,
                                   page_start_offset + unenc
                                     + (u - dst - unenc),
                                   vread(m, src + (u - dst)))]]

\* EncMMap::decrypt(dst, src, size, page_number): dst is a physical page,
\* src an offset of the underlying file
decrypt(m, dst, src, size0, page_number) ==
    LET size == IF is_last_page(page_number) THEN last_page_size_ ELSE size0
        page_start_offset == page_number * page_size_
        unenc == unencrypted_size(size, page_number)
    IN  [m EXCEPT !.pmem[dst] =
           [i \in 1 .. page_size_ |->
              IF i - 1 >= size THEN m.pmem[dst][i]
              ELSE IF i - 1 < unenc THEN m.raw[src + i - 1]
              ELSE Aes_ctr_decrypt(m.key,
                                   page_start_offset + unenc
                                     + (i - 1 - unenc),
                                   m.raw[src + i - 1])],
                  !.pkey[dst] = m.key]

\* Faulty variant of sync(): a page is not flushed, only downgraded
sync_pages_no_flush(m, pages) ==
    [m EXCEPT !.vpage2protection =
        [n \in VPages |-> IF n \in pages /\ m.vpage2protection[n] = PROT_RW
                          THEN m.default_page_protection
                          ELSE m.vpage2protection[n]]]

\* EncMMap::sync(): the loop over vpage2ppage_, in the order of the keys
RECURSIVE sync_pages(_, _)
sync_pages(m, pages) ==
    IF pages = {} THEN m
    ELSE LET page_no == SetMin(pages)
         IN  sync_pages(
               IF m.vpage2protection[page_no] = PROT_RW
               THEN mprotectd(encrypt(mprotectd(m, page_no, page_size_,
                                                PROT_READ),
                                      page_no * page_size_,
                                      page_no * page_size_,
                                      page_size_, page_no),
                              page_no, page_size_, m.default_page_protection)
               ELSE m,
               pages \ {page_no})

\* EncMMap::sync()
sync(m) == sync_pages(m, Mapped(m))

\* Faulty variant of set_key: the pages stay in vpage2ppage_
set_key_keeps_map(m, key) ==
    free_all(mprotectd([m EXCEPT !.key = key], 0, VmemSize, PROT_NONE))

\* Faulty variant of set_key: the dirty pages are flushed, with the new
\* key, before they are dropped
set_key_flushes(m, key) ==
    [free_all(mprotectd(sync([m EXCEPT !.key = key]), 0, VmemSize, PROT_NONE))
       EXCEPT !.vpage2ppage = [n \in VPages |-> NoPage]]

\* EncMMap::set_key
set_key(m, key) ==
    [free_all(mprotectd([m EXCEPT !.key = key], 0, VmemSize, PROT_NONE))
       EXCEPT !.vpage2ppage = [n \in VPages |-> NoPage]]

\* PageGluer::PageGluer, PageGluer::reset
PageGluer ==
    [src |-> -1, dst |-> -1, size |-> 0, min_page_no |-> -1,
     prev_page_no |-> -1]

\* PageGluer::glue
glue(g, page_no, src, dst, size) ==
    IF g.prev_page_no = -1
    THEN [g  |-> [src |-> src, dst |-> dst, size |-> size,
                  min_page_no |-> page_no, prev_page_no |-> page_no],
          ok |-> TRUE]
    ELSE IF g.prev_page_no + 1 = page_no
    THEN [g  |-> [g EXCEPT !.prev_page_no = page_no, !.size = @ + size],
          ok |-> TRUE]
    ELSE [g |-> g, ok |-> FALSE]

\* handle_signal, first loop of the eviction pass: flush the dirty pages
\* in runs and mark every page visited as not mapped
RECURSIVE flush_mapped(_, _, _, _)

\* "vpage2protection_[page_no] = PROT_NONE; if (--limit == 0) break;"
flush_next(m, gluer, pages, limit, page_no) ==
    IF limit - 1 = 0
    THEN [m     |-> [m EXCEPT !.vpage2protection[page_no] = PROT_NONE],
          gluer |-> gluer]
    ELSE flush_mapped([m EXCEPT !.vpage2protection[page_no] = PROT_NONE],
                      gluer, pages \ {page_no}, limit - 1)

\* a dirty page, after mprotectd(PROT_READ) and gluer.glue(): gl
flush_dirty(m, gluer, gl, pages, limit, page_no) ==
    IF gl.ok
    THEN flush_next(m, gl.g, pages, limit, page_no)
    ELSE flush_next(encrypt(m, gluer.dst, gluer.src, gluer.size,
                            gluer.min_page_no),
                    glue(PageGluer, page_no, page_no * page_size_,
                         page_no * page_size_,
                         IF is_last_page(page_no) THEN last_page_size_
                         ELSE page_size_).g,
                    pages, limit, page_no)

flush_page(m, gluer, pages, limit, page_no) ==
    IF m.vpage2protection[page_no] = PROT_RW
    THEN flush_dirty(mprotectd(m, page_no, page_size_, PROT_READ), gluer,
                     glue(gluer, page_no, page_no * page_size_,
                          page_no * page_size_,
                          IF is_last_page(page_no) THEN last_page_size_
                          ELSE page_size_),
                     pages, limit, page_no)
    ELSE flush_next(m, gluer, pages, limit, page_no)

flush_mapped(m, gluer, pages, limit) ==
    IF pages = {} THEN [m |-> m, gluer |-> gluer]
    ELSE flush_page(m, gluer, pages, limit, SetMin(pages))

\* "if (gluer.size_ > 0) encrypt(...)"
flush_glued(f) ==
    IF f.gluer.size > 0
    THEN encrypt(f.m, f.gluer.dst, f.gluer.src, f.gluer.size,
                 f.gluer.min_page_no)
    ELSE f.m

\* Faulty variant of the second loop: the pages are erased from the map
\* and not returned to the pool
free_mapped_leak(m, pages, limit) ==
    [m EXCEPT !.vpage2ppage = [n \in VPages |-> IF n \in pages THEN NoPage
                                                ELSE m.vpage2ppage[n]]]

\* handle_signal, second loop of the eviction pass: unmap and free
RECURSIVE free_mapped(_, _, _)
free_mapped(m, pages, limit) ==
    IF pages = {} THEN m
    ELSE LET v == SetMin(pages)
         IN  IF limit - 1 = 0
             THEN [PMemoryManager_free(m, m.vpage2ppage[v])
                     EXCEPT !.vpage2ppage[v] = NoPage]
             ELSE free_mapped([PMemoryManager_free(m, m.vpage2ppage[v])
                                 EXCEPT !.vpage2ppage[v] = NoPage],
                              pages \ {v}, limit - 1)

free_pass(m) == free_mapped(m, Mapped(m), FLUSH_LIMIT)

\* handle_signal: the eviction pass
evict(m) == free_pass(flush_glued(flush_mapped(m, PageGluer, Mapped(m),
                                               FLUSH_LIMIT)))

\* handle_signal: decrypt the page into p and map it at the virtual page
map_page(m, p, req_page_no) ==
    [decrypt(m, p, req_page_no * page_size_, page_size_, req_page_no)
       EXCEPT !.vpage2protection[req_page_no] = m.default_page_protection,
              !.vpage2ppage[req_page_no] = p]

\* handle_signal: read ahead
RECURSIVE read_ahead(_, _, _)

read_ahead_alloc(a, req_page_no, i) ==
    IF a.p = NoPage THEN a.m
    ELSE read_ahead(map_page(a.m, a.p, req_page_no), req_page_no, i + 1)

read_ahead_page(m, req_page_no, i) ==
    IF m.vpage2protection[req_page_no] # PROT_NONE
    THEN read_ahead(m, req_page_no, i + 1)
    ELSE read_ahead_alloc(PMemoryManager_alloc(m), req_page_no, i)

read_ahead(m, req_page_no, i) ==
    IF ~(i < m.read_ahead_cnt) THEN m
    ELSE read_ahead_page(m, IF req_page_no + 1 < pages_cnt_
                            THEN req_page_no + 1 ELSE 0, i)

\* handle_signal: "if (!p) { eviction pass; p = alloc(); assert(p); }"
alloc_or_evict(a) ==
    IF a.p # NoPage THEN a ELSE PMemoryManager_alloc(evict(a.m))

\* handle_signal: the page is not mapped
handle_miss(a, req_page_no) ==
    IF a.p = NoPage THEN [a.m EXCEPT !.abort = TRUE]
    ELSE read_ahead(map_page(a.m, a.p, req_page_no), req_page_no, 0)

\* EncMMap::handle_signal, between try_lock() and unlock()
handle_signal(m, req_page_no) ==
    IF m.vpage2protection[req_page_no] = PROT_NONE
    THEN handle_miss(alloc_or_evict(PMemoryManager_alloc(m)), req_page_no)
    ELSE IF m.vpage2protection[req_page_no] = PROT_READ
    THEN mprotectd(m, req_page_no, page_size_, PROT_RW)
    ELSE m

\* EncMMap::set_access_mode
set_access_mode(m, read) ==
    IF read
    THEN [m EXCEPT !.read_ahead_cnt = READ_AHEAD_CNT,
                   !.default_page_protection = PROT_READ]
    ELSE [m EXCEPT !.read_ahead_cnt = 0,
                   !.default_page_protection = PROT_RW]

\* EncMMap::EncMMap over the file raw, with a pool of n pages whose memory
\* is pmem: the protection array is allocated, not initialised, and
\* set_key() fills it
EncMMap(raw, key, n, pmem, pkey) ==
    set_key([vpage2protection |-> [v \in VPages |-> -1],
             vpage2ppage      |-> [v \in VPages |-> NoPage],
             free_pages       |-> my_pages(n),
             alloc_pages_cnt  |-> n,
             pmem             |-> pmem,
             pkey             |-> pkey,
             raw              |-> raw,
             key              |-> key,
             default_page_protection |-> PROT_RW,
             read_ahead_cnt   |-> 0,
             abort            |-> FALSE], key)

\* a new file, and the memory of a new pool: zeros
BlankFile == [u \in Units |-> Plain(0)]
BlankPool == [p \in PPages |-> [i \in 1 .. page_size_ |-> Plain(0)]]
NoKeys    == [p \in PPages |-> 0]


\* ------------------------------------------------------ EncMMap state
VARIABLES
    enc,          \* the EncMMap, its pool and the underlying file
    latest,       \* per unit of the file: the plaintext the client expects
                  \* there, Unknown when it has none to expect
    acc,          \* the access the client thread is executing, or NoAccess
    elast         \* the last step of the EncMMap: name and one number

encvars == <<enc, latest, acc, elast>>

Unknown  == -1
NoAccess == [u |-> -1, len |-> 0, w |-> FALSE, val |-> 0, faults |-> 0,
             lost |-> 0]

EOp(name, n) == [op |-> name, n |-> n]

\* no step of the EncMMap is being looked at
NoStep == EOp("idle", 0)

\* what the client can expect of the file when nothing is mapped any more
\* and the key may have changed: the plaintext header
OnFile(m) ==
    [u \in Units |-> IF u < encryption_start_offset_ /\ IsPlain(m.raw[u])
                     THEN m.raw[u].v ELSE Unknown]

\* the units and the virtual pages an access touches
AccUnits(a) == a.u .. (a.u + a.len - 1)
AccPages(a) == {u \div page_size_ : u \in AccUnits(a)}

\* the hardware lets the access through
Accessible(m, v, w) ==
    \/ m.vpage2protection[v] = PROT_RW
    \/ ~w /\ m.vpage2protection[v] = PROT_READ

Dirty(m) == {v \in Mapped(m) : m.vpage2protection[v] = PROT_RW}

\* The memory of a physical page that no virtual page maps is not kept: the
\* client cannot reach it, and decrypt() overwrites it before the page is
\* mapped again.
Forget(m) ==
    [m EXCEPT !.pmem = [p \in PPages |->
                          IF \E v \in VPages : m.vpage2ppage[v] = p
                          THEN m.pmem[p] ELSE BlankPool[p]],
              !.pkey = [p \in PPages |->
                          IF \E v \in VPages : m.vpage2ppage[v] = p
                          THEN m.pkey[p] ELSE 0]]

\* ---------------------------------------------------- RingBuffer state
VARIABLES
    mem,          \* the mapped bytes, as headers (see above)
    first,        \* first_
    next,         \* next_
    size_trail,   \* size_trail_
    size_free,    \* size_free_
    size_used,    \* size_used_
    seqno2ptr,    \* seqno2ptr_
    ub,           \* the code has read a non-header as a header
    held,         \* buffers handed out by malloc/realloc and not yet freed
    seqno_max,    \* highest seqno assigned so far
    last          \* the call that has not returned yet: name, arguments,
                  \* result; NoCall between calls

ringvars == <<mem, first, next, size_trail, size_free, size_used, seqno2ptr,
              ub, held, seqno_max, last>>

\* ------------------------------------------------- EncMMap lock state
\* gu_enc_mmap.cpp: the threads that enter the fault handler, sync(),
\* sync(addr, length) and set_key() of one EncMMap.
NThreads == 3       \* threads: 1 .. NThreads
MaxCalls == 2       \* calls one thread makes

Threads == 1 .. NThreads

LockOps == {"fault", "sync", "sync_range", "set_key"}

VARIABLES
    lock_,        \* the atomic flag lock_
    thr           \* per thread: the operation it is in, where it is in it
                  \* (pc), and the calls it has made (n)

lockvars == <<lock_, thr>>

\* a thread outside of the four operations
Outside(n) == [op |-> "none", pc |-> "idle", n |-> n]

\* the flag as it ignores its former value
try_lock_blind(flag) == [ok |-> TRUE, flag |-> TRUE]

\* EncMMap::try_lock: test_and_set returns the former value of the flag
try_lock(flag) == [ok |-> ~flag, flag |-> TRUE]

\* EncMMap::unlock: clear
unlock(flag) == FALSE

\* the threads between lock (or a try_lock that succeeded) and unlock: they
\* read and write vpage2ppage_, vpage2protection_ and the pool
InCritical == {t \in Threads : thr[t].pc \in {"locked", "work", "unlock"}}

InitLock ==
    /\ lock_ = FALSE
    /\ thr = [t \in Threads |-> Outside(0)]

\* -------------------------------------------------- ServiceThd state
\* galera_service_thd.cpp: the service thread of the replicator with its
\* callers.  Every caller runs under mtx_; flush() and the worker give it
\* up while they wait on a condition variable.
MaxGcsSeqno == 2    \* seqnos reported and released: 1 .. MaxGcsSeqno
NFlushers   == 1    \* threads that call flush(): 1 .. NFlushers
MaxResets   == 1    \* calls of reset()

GcsSeqnos == 1 .. MaxGcsSeqno
Flushers  == 1 .. NFlushers

\* gu::GTID(): the seqno of a GTID that has none
SEQNO_UNDEFINED == -1

\* data_.act_: the bits that are set
A_NONE == {}

Data(act, last_committed, released, clear) ==
    [act_ |-> act, last_committed_ |-> last_committed,
     release_seqno_ |-> released, clear_release_seqno_ |-> clear]

\* "galera::ServiceThd::Data data;": the local data of thd_func at the top
\* of its loop
NoData == Data(A_NONE, SEQNO_UNDEFINED, 0, FALSE)

\* nothing has been passed to set_last_applied
NotHanded == [seqno |-> SEQNO_UNDEFINED, taken |-> SEQNO_UNDEFINED]

\* thd_func at the top of its loop
AtTop == [pc |-> "top", data |-> NoData, reset |-> FALSE]

VARIABLES
    data_,        \* ServiceThd::data_
    wk,           \* the worker: where it is in thd_func (pc), its local
                  \* data, and whether reset() has been called since it
                  \* took them
    fl,           \* per flusher: where it is in flush() (pc), what it
                  \* still waits for (owed) of the n actions it found,
                  \* whether reset() has been called since it entered, and
                  \* whether it entered after the destructor (late)
    dtor,         \* the destructor: "none", "join", "joined"
    handed,       \* since the last reset(): the seqno last passed to
                  \* set_last_applied (seqno), and the last one that came
                  \* from data taken since that reset() (taken)
    nreset,       \* calls of reset() so far
    slast         \* the last step: name, seqno, result

svcvars == <<data_, wk, fl, dtor, handed, nreset, slast>>

SOp(op, seqno, ret) == [op |-> op, seqno |-> seqno, ret |-> ret]

\* a thread that is not in flush()
NoFlush ==
    [pc |-> "out", owed |-> {}, n |-> 0, reset |-> FALSE, late |-> FALSE]

InitSvc ==
    /\ data_ = Data(A_NONE, SEQNO_UNDEFINED, 0, FALSE)
    /\ wk = AtTop
    /\ fl = [c \in Flushers |-> NoFlush]
    /\ dtor = "none"
    /\ handed = NotHanded
    /\ nreset = 0
    /\ slast = SOp("init", 0, 0)

\* cond_.signal(): the worker, when it waits on cond_, is woken
signal(w) == IF w.pc = "sleep" THEN [w EXCEPT !.pc = "woken"] ELSE w

\* flush_.broadcast(): every thread that waits on flush_ is woken
broadcast(f) ==
    [c \in Flushers |-> IF f[c].pc = "wait" THEN [f[c] EXCEPT !.pc = "woken"]
                        ELSE f[c]]

\* thd_func without "st->data_.act_ |= A_FLUSH"
take_drops_flush(d) == [d EXCEPT !.act_ = A_NONE]

\* thd_func, under the mutex: "data = st->data_; st->data_.act_ = A_NONE"
\* and the A_FLUSH bit put back when other actions are scheduled with it
take(d) ==
    [d EXCEPT !.act_ = IF "A_FLUSH" \in d.act_ /\ d.act_ # {"A_FLUSH"}
                       THEN {"A_FLUSH"} ELSE A_NONE]

\* where thd_func goes with the data it took
after_take(d) ==
    IF "A_EXIT" \in d.act_ THEN "exited"
    ELSE IF "A_LAST_COMMITTED" \in d.act_ THEN "lc"
    ELSE IF "A_RELEASE_SEQNO" \in d.act_ THEN "rs"
    ELSE "top"

\* report_last_committed that schedules the report whatever the seqno
report_last_committed_always(d, w, seqno, report) ==
    [d |-> [d EXCEPT !.last_committed_ = seqno,
                     !.act_ = @ \cup {"A_LAST_COMMITTED"}],
     w |-> IF d.act_ = A_NONE THEN signal(w) ELSE w]

\* ServiceThd::report_last_committed
report_last_committed(d, w, seqno, report) ==
    IF d.last_committed_ < seqno
    THEN IF report
         THEN [d |-> [d EXCEPT !.last_committed_ = seqno,
                               !.act_ = @ \cup {"A_LAST_COMMITTED"}],
               w |-> IF d.act_ = A_NONE THEN signal(w) ELSE w]
         ELSE [d |-> [d EXCEPT !.last_committed_ = seqno], w |-> w]
    ELSE [d |-> d, w |-> w]

\* ServiceThd::release_seqno
release_seqno(d, w, seqno, do_reset) ==
    IF d.release_seqno_ < seqno
    THEN [d |-> [d EXCEPT !.release_seqno_ = seqno,
                          !.clear_release_seqno_ = do_reset,
                          !.act_ = @ \cup {"A_RELEASE_SEQNO"}],
          w |-> IF d.act_ = A_NONE THEN signal(w) ELSE w]
    ELSE [d |-> d, w |-> w]

\* the destructor without cond_.signal()
shutdown_no_signal(d, w) == [d |-> [d EXCEPT !.act_ = {"A_EXIT"}], w |-> w]

\* ServiceThd::~ServiceThd, under the mutex
shutdown(d, w) == [d |-> [d EXCEPT !.act_ = {"A_EXIT"}], w |-> signal(w)]

\* the worker holds a batch with this action and has not completed it
Executing(w, a) ==
    \/ w.pc = "lc" /\ a \in w.data.act_
    \/ w.pc = "rs" /\ a = "A_RELEASE_SEQNO"

\* what a thread that enters flush() finds scheduled ("pend") or being
\* executed ("exec")
Found(d, w) ==
    {<<a, "pend">> : a \in d.act_ \cap {"A_LAST_COMMITTED", "A_RELEASE_SEQNO"}}
      \cup {<<a, "exec">> : a \in {x \in {"A_LAST_COMMITTED", "A_RELEASE_SEQNO"} :
                                     Executing(w, x)}}

\* the worker takes its batch: the scheduled actions are being executed
Taken(owed, act) ==
    {IF o[2] = "pend" /\ o[1] \in act THEN <<o[1], "exec">> ELSE o : o \in owed}

\* ---------------------------------------------------- Master Key state
\* gcache_rb_store.cpp, gu_enc_utils.cpp: the encryption fields of the ring
\* buffer (Master Key id and uuid, the wrapped file key), the preamble on
\* file and the keyring of the Master Key provider.
MaxUuid         == 3    \* uuids that gu::UUID(0, 0) draws: 1 .. MaxUuid
MaxMkId         == 2    \* rotations stop at master_key_id_ = MaxMkId
MaxKeyByte      == 2    \* the bytes of generated keys: 1 .. MaxKeyByte
FILE_KEY_LENGTH == 1    \* Aes_ctr::FILE_KEY_LENGTH, in bytes of the model

Uuids    == 1 .. MaxUuid
KeyBytes == 1 .. MaxKeyByte

\* GU_UUID_NIL, gu::UUID()
GU_UUID_NIL == 0

\* std::string(): the empty string
EmptyStr == <<>>

\* a key of FILE_KEY_LENGTH bytes
KeyStr(b) == [i \in 1 .. FILE_KEY_LENGTH |-> b]

\* bitwise exclusive or of two bytes of two bits
Xor(a, b) ==
    (((a % 2) + (b % 2)) % 2) + 2 * ((((a \div 2) + (b \div 2))) % 2)

\* the key stream of AES-CTR under key and the zero iv, one byte per byte
\* of text
KeyStream(key, i) == key[((i - 1) % Len(key)) + 1]

\* gu::encrypt_key: AES-CTR, text xor key stream
encrypt_key(key_to_be_encrypted, key) ==
    [i \in 1 .. Len(key_to_be_encrypted) |->
        Xor(key_to_be_encrypted[i], KeyStream(key, i))]

\* gu::decrypt_key: AES-CTR again
decrypt_key(key_to_be_decrypted, key) ==
    [i \in 1 .. Len(key_to_be_decrypted) |->
        Xor(key_to_be_decrypted[i], KeyStream(key, i))]

\* base64: the character of a byte, and '='
B64Base == 65
PadChar == 61

\* gu::encode64: one character per byte, then the padding
encode64(binary) ==
    [i \in 1 .. (Len(binary) + ((3 - (Len(binary) % 3)) % 3)) |->
        IF i <= Len(binary) THEN binary[i] + B64Base ELSE PadChar]

\* gu::decode64: every character gives a byte, then the padding is erased
decode64(base64) ==
    LET length == Len(base64)
        binary == [i \in 1 .. length |->
                      IF base64[i] = PadChar THEN 0 ELSE base64[i] - B64Base]
    IN  IF length > 2 /\ base64[length] = PadChar
                      /\ base64[length - 1] = PadChar
        THEN SubSeq(binary, 1, length - 2)
        ELSE IF length > 1 /\ base64[length] = PadChar
        THEN SubSeq(binary, 1, length - 1)
        ELSE binary

\* gu::create_master_key_name
create_master_key_name(const_uuid, uuid, keyId) ==
    [uuid |-> uuid, const_uuid |-> const_uuid, keyId |-> keyId]

\* MasterKeyProvider::get_key: the key, or the empty string
get_key(kr, key_name) ==
    IF \E k \in kr : k.name = key_name
    THEN KeyStr((CHOOSE k \in kr : k.name = key_name).val)
    ELSE EmptyStr

\* the members of a RingBuffer that has read no preamble
NewRb(enc_on) ==
    [encrypt_ |-> enc_on, master_key_id_ |-> 0, const_mk_id_ |-> GU_UUID_NIL,
     master_key_uuid_ |-> GU_UUID_NIL, file_key_ |-> EmptyStr]

\* the CRC of the encryption fields, by the fields it is made of; <<>> for
\* the value 0 (none)
NoCrc == <<>>
enc_crc_of(encrypted, id, const_id, uuid, file_key) ==
    <<encrypted, id, const_id, uuid, file_key>>

\* Faulty variant of write_preamble: the text says synced whatever the
\* argument.
write_preamble_synced(r, synced) ==
    [synced |-> TRUE, range |-> TRUE,
     enc_encrypted |-> r.encrypt_, mk_id |-> r.master_key_id_,
     const_id |-> r.const_mk_id_, mk_uuid |-> r.master_key_uuid_,
     file_key |-> r.file_key_,
     enc_crc |-> enc_crc_of(r.encrypt_, r.master_key_id_, r.const_mk_id_,
                            r.master_key_uuid_, r.file_key_)]

\* RingBuffer::write_preamble: the text on file
write_preamble(r, synced) ==
    [synced |-> synced, range |-> synced,
     enc_encrypted |-> r.encrypt_, mk_id |-> r.master_key_id_,
     const_id |-> r.const_mk_id_, mk_uuid |-> r.master_key_uuid_,
     file_key |-> r.file_key_,
     enc_crc |-> enc_crc_of(r.encrypt_, r.master_key_id_, r.const_mk_id_,
                            r.master_key_uuid_, r.file_key_)]

\* a file that has never been written
BlankPreamble ==
    [synced |-> FALSE, range |-> FALSE, enc_encrypted |-> FALSE, mk_id |-> 0,
     const_id |-> GU_UUID_NIL, mk_uuid |-> GU_UUID_NIL,
     file_key |-> EmptyStr, enc_crc |-> NoCrc]

VARIABLES
    keyring,      \* the keys of the provider: name and byte
    preamble,     \* the preamble on file
    rbenc,           \* the encryption members of the RingBuffer
    mpc,          \* "closed", "open", "rotating" (in rotate_master_key,
                  \* before master_key_id_++)
    mmap_key,     \* the file key given to mmap_.set_key
    data_key,     \* the file key the pages of the ring on file are
                  \* written with
    rot,          \* rotate_master_key: its local strings
    mlast         \* the last call: name, result, cause, reset made

mkvars == <<keyring, preamble, rbenc, mpc, mmap_key, data_key, rot, mlast>>

MOp(op, ret, why, did_reset) ==
    [op |-> op, ret |-> ret, why |-> why, reset |-> did_reset]

NoRot == [old_mk |-> EmptyStr, unencrypted_file_key |-> EmptyStr,
          new_mk |-> EmptyStr]

InitMk ==
    /\ keyring = {}
    /\ preamble = BlankPreamble
    /\ rbenc = NewRb(FALSE)
    /\ mpc = "closed"
    /\ mmap_key = EmptyStr
    /\ data_key = EmptyStr
    /\ rot = NoRot
    /\ mlast = MOp("init", FALSE, "none", FALSE)

\* uuids that are in use nowhere
UsedUuids(kr, pre) ==
    {k.name.uuid : k \in kr} \cup {k.name.const_uuid : k \in kr}
        \cup {pre.const_id, pre.mk_uuid}
FreshUuids(kr, pre) == Uuids \ UsedUuids(kr, pre)

\* generate_new_master_key that returns a key that is there already
generate_takes_existing(kr, key_name, created, b) ==
    IF get_key(kr, key_name) # EmptyStr
    THEN [key |-> get_key(kr, key_name), kr |-> kr]
    ELSE IF ~created THEN [key |-> EmptyStr, kr |-> kr]
    ELSE [key |-> KeyStr(b), kr |-> kr \cup {[name |-> key_name, val |-> b]}]

\* RingBuffer::generate_new_master_key; created: create_key succeeds and
\* the key reads back, with byte b
generate_new_master_key(kr, key_name, created, b) ==
    IF get_key(kr, key_name) # EmptyStr THEN [key |-> EmptyStr, kr |-> kr]
    ELSE IF ~created THEN [key |-> EmptyStr, kr |-> kr]
    ELSE [key |-> KeyStr(b), kr |-> kr \cup {[name |-> key_name, val |-> b]}]

\* open_preamble that uses the Master Key although the next one is there
usable_ignores_next(mk, next_mk) == mk

\* open_preamble: the Master Key the preamble names is used when it is there
\* and the key with the next id is not ("mk.clear()")
usable(mk, next_mk) == IF mk # EmptyStr /\ next_mk # EmptyStr THEN EmptyStr ELSE mk

\* open_preamble, the encryption fields: pre is the preamble on file, kr the
\* keyring, u_const and u_mk what gu::UUID(0, 0) returns, created and b the
\* outcome of create_key, fkb the byte of generate_random_key.  The result:
\* the members, the keyring, the key for the mmap, whether the constructor
\* throws, whether the ring is reset, and why the Master Key was replaced.
open_preamble(pre, kr, enc_on, u_const, u_mk, created, b, fkb) ==
    LET \* the lines of the preamble, read into the members
        gen_const == pre.const_id = GU_UUID_NIL
        const     == IF gen_const THEN u_const ELSE pre.const_id
        switch    == pre.enc_encrypted # enc_on
        id0       == IF switch THEN 0 ELSE pre.mk_id
        uuid0     == IF switch THEN GU_UUID_NIL ELSE pre.mk_uuid
        fk0       == IF switch THEN EmptyStr ELSE pre.file_key
        \* the CRC of the encryption fields
        crc_val   == IF pre.enc_crc # NoCrc
                     THEN enc_crc_of(pre.enc_encrypted, id0, const, uuid0, fk0)
                     ELSE NoCrc
        bad_crc   == pre.enc_crc = NoCrc \/ crc_val # pre.enc_crc
        id1       == IF bad_crc THEN 0 ELSE id0
        fk1       == IF bad_crc THEN EmptyStr ELSE fk0
        \* the loop, first turn
        named     == ~(id1 = 0 \/ uuid0 = GU_UUID_NIL)
        mk_name   == create_master_key_name(const, uuid0, id1)
        next_name == create_master_key_name(const, uuid0, id1 + 1)
        found     == usable(get_key(kr, mk_name), get_key(kr, next_name))
        \* a new Master Key: in the first turn when none is named, in the
        \* second when the named one cannot be used
        gen_mk    == ~named \/ found = EmptyStr
        g         == generate_new_master_key(
                         kr, create_master_key_name(const, u_mk, 1), created, b)
        mk        == IF gen_mk THEN g.key ELSE found
        id2       == IF ~gen_mk THEN id1 ELSE IF g.key = EmptyStr THEN 0 ELSE 1
        uuid2     == IF gen_mk THEN u_mk ELSE uuid0
        fk2       == IF gen_mk /\ (named \/ g.key = EmptyStr)
                     THEN EmptyStr ELSE fk1
        \* the file key
        new_fk    == fk2 = EmptyStr
        ufk       == IF new_fk THEN KeyStr(fkb)
                     ELSE decrypt_key(decode64(fk2), mk)
        fk3       == IF new_fk THEN encode64(encrypt_key(ufk, mk)) ELSE fk2
        why       == IF switch THEN "switch"
                     ELSE IF bad_crc THEN "crc"
                     ELSE IF ~named THEN "unnamed"
                     ELSE IF get_key(kr, mk_name) = EmptyStr THEN "missing"
                     ELSE IF found = EmptyStr THEN "next"
                     ELSE "none"
    IN  IF ~enc_on
        THEN [rb |-> [encrypt_ |-> FALSE, master_key_id_ |-> id0,
                      const_mk_id_ |-> const, master_key_uuid_ |-> uuid0,
                      file_key_ |-> fk0],
              kr |-> kr, key |-> EmptyStr, throws |-> FALSE,
              reset |-> switch, why |-> IF switch THEN "switch" ELSE "none",
              gen_const |-> gen_const, gen_mk |-> FALSE, new_fk |-> FALSE]
        ELSE IF mk = EmptyStr
        THEN [rb |-> [encrypt_ |-> TRUE, master_key_id_ |-> id2,
                      const_mk_id_ |-> const, master_key_uuid_ |-> uuid2,
                      file_key_ |-> EmptyStr],
              kr |-> g.kr, key |-> EmptyStr, throws |-> TRUE,
              reset |-> FALSE, why |-> why,
              gen_const |-> gen_const, gen_mk |-> TRUE, new_fk |-> FALSE]
        ELSE [rb |-> [encrypt_ |-> TRUE, master_key_id_ |-> id2,
                      const_mk_id_ |-> const, master_key_uuid_ |-> uuid2,
                      file_key_ |-> fk3],
              kr |-> IF gen_mk THEN g.kr ELSE kr,
              key |-> ufk, throws |-> FALSE,
              reset |-> switch \/ new_fk, why |-> why,
              gen_const |-> gen_const, gen_mk |-> gen_mk, new_fk |-> new_fk]

\* rotate_master_key that re-encrypts nothing
rotate_keeps_wrapped(r, unencrypted_file_key, new_mk) ==
    IF new_mk = EmptyStr THEN [ret |-> TRUE, rb |-> r]
    ELSE [ret |-> FALSE,
          rb  |-> [r EXCEPT !.master_key_id_ = @ + 1]]

\* rotate_master_key that counts the new Master Key before it has it
rotate_counts_first(r, unencrypted_file_key, new_mk) ==
    IF new_mk = EmptyStr
    THEN [ret |-> TRUE, rb |-> [r EXCEPT !.master_key_id_ = @ + 1]]
    ELSE [ret |-> FALSE,
          rb  |-> [r EXCEPT !.master_key_id_ = @ + 1,
                            !.file_key_ = encode64(encrypt_key(
                                              unencrypted_file_key, new_mk))]]

\* RingBuffer::rotate_master_key from "if (new_mk.empty())" on
rotate_master_key(r, unencrypted_file_key, new_mk) ==
    IF new_mk = EmptyStr THEN [ret |-> TRUE, rb |-> r]
    ELSE [ret |-> FALSE,
          rb  |-> [r EXCEPT !.master_key_id_ = @ + 1,
                            !.file_key_ = encode64(encrypt_key(
                                              unencrypted_file_key, new_mk))]]

\* ------------------------------------------------ PMemoryManagerPool
\* gu_enc_pmemory_manager_pool.cpp: the registry of idle PMemoryManagers,
\* one for the process, and the EncMMaps that take their manager from it.
NMmaps        == 3    \* EncMMap objects (threads): 1 .. NMmaps
MaxCreateSize == 2    \* sizes asked for: 1 .. MaxCreateSize
MaxPageSize   == 2    \* page sizes asked for: 1 .. MaxPageSize
MaxTime       == 5    \* allocate is called while timestamp_server < MaxTime

\* scaled down from 10, 10 and 10
AGE_THREASHOLD     == 2
ERASE_TRIGGER      == 2
MANAGERS_POOL_SIZE == 2    \* pool_size_max_

Mmaps       == 1 .. NMmaps
CreateSizes == 1 .. MaxCreateSize
PageSizes   == 1 .. MaxPageSize
\* a PMemoryManager is known by a number
ManagerIds  == 1 .. (NMmaps + MANAGERS_POOL_SIZE)

\* an empty shared_ptr<PMemoryManager>
NoManager == [id |-> 0, create_size_ |-> 0, alloc_page_size_ |-> 0]

\* PMemoryManagerHolder::PMemoryManagerHolder
PMemoryManagerHolder(timestamp, manager) ==
    [timestamp_ |-> timestamp, manager_ |-> manager,
     mgr_size_ |-> manager.create_size_,
     mgr_alloc_page_size_ |-> manager.alloc_page_size_]

\* PMemoryManagerHolder::operator<
holder_less(lhs, rhs) ==
    /\ lhs.mgr_size_ < rhs.mgr_size_
    /\ lhs.mgr_alloc_page_size_ < rhs.mgr_alloc_page_size_

VARIABLES
    managers_,          \* PMemoryManagerPool::managers_, in the order of
                        \* the set
    pool_size_,         \* PMemoryManagerPool::pool_size_
    timestamp_server,   \* the static counter of allocate calls
    memory_manager_ptr_,\* per EncMMap: its manager, NoManager when the
                        \* object does not exist
    plast               \* the last call: name, EncMMap, size, page size,
                        \* whether the manager came from the registry

poolvars == <<managers_, pool_size_, timestamp_server, memory_manager_ptr_,
              plast>>

POp(op, m, size, page_size, reused) ==
    [op |-> op, m |-> m, size |-> size, page_size |-> page_size,
     reused |-> reused]

InitPool ==
    /\ managers_ = <<>>
    /\ pool_size_ = 0
    /\ timestamp_server = 0
    /\ memory_manager_ptr_ = [m \in Mmaps |-> NoManager]
    /\ plast = POp("init", 0, 0, 0, FALSE)

\* std::set::erase(iterator)
set_erase(ms, i) == SubSeq(ms, 1, i - 1) \o SubSeq(ms, i + 1, Len(ms))

\* allocate that leaves in the registry the manager it returns
detach_keeps(ms, i) == ms

\* allocate: "managers_.erase(erase_iter)" of the manager it returns
detach(ms, i) == set_erase(ms, i)

\* std::set::emplace with operator<: the holder goes in when it is less or
\* greater than every holder of the set (the set stays a chain), before the
\* first holder it is less than; when one holder is neither less nor
\* greater the tree finds it on the way and nothing goes in
set_emplace(ms, h) ==
    IF \E i \in 1 .. Len(ms) : ~holder_less(h, ms[i]) /\ ~holder_less(ms[i], h)
    THEN ms
    ELSE LET n == Cardinality({i \in 1 .. Len(ms) : holder_less(ms[i], h)})
         IN  SubSeq(ms, 1, n) \o <<h>> \o SubSeq(ms, n + 1, Len(ms))

\* allocate: the holder is obsolete
obsolete(h, now) ==
    \/ h.timestamp_ + AGE_THREASHOLD < now
    \/ h.timestamp_ > now

\* PMemoryManagerPool::allocate, the loop over managers_ with iter at i
RECURSIVE allocate_loop(_, _, _, _, _, _, _, _)
allocate_loop(ms, i, result, psize, now, doErase, alloc_page_size, size) ==
    IF i > Len(ms) THEN [ms |-> ms, result |-> result, psize |-> psize]
    ELSE
    LET found == /\ result = NoManager
                 /\ ms[i].mgr_size_ >= size
                 /\ ms[i].mgr_alloc_page_size_ >= alloc_page_size
        result1 == IF found THEN ms[i].manager_ ELSE result
        ms1     == IF found THEN detach(ms, i) ELSE ms
        psize1  == IF found THEN psize - 1 ELSE psize
    IN  IF result1 # NoManager /\ ~doErase
        THEN [ms |-> ms1, result |-> result1, psize |-> psize1]
        ELSE IF i > Len(ms1)
        THEN [ms |-> ms1, result |-> result1, psize |-> psize1]
        ELSE IF obsolete(ms1[i], now)
        THEN allocate_loop(set_erase(ms1, i), i, result1, psize1, now,
                           doErase, alloc_page_size, size)
        ELSE allocate_loop(ms1, i + 1, result1, psize1, now, doErase,
                           alloc_page_size, size)

\* PMemoryManagerPool::allocate up to "if (!result)": now is
\* timestamp_server after "timestamp_server++"
allocate(ms, psize, now, alloc_page_size, size) ==
    allocate_loop(ms, 1, NoManager, psize, now, now % ERASE_TRIGGER = 0,
                  alloc_page_size, size)

\* PMemoryManagerPool::free
pool_free(ms, psize, now, mgr) ==
    IF psize < MANAGERS_POOL_SIZE
    THEN [ms |-> set_emplace(ms, PMemoryManagerHolder(now, mgr)),
          psize |-> psize + 1]
    ELSE [ms |-> ms, psize |-> psize]

\* the managers that exist: in the registry or in an EncMMap
HeldIds  == {managers_[i].manager_.id : i \in 1 .. Len(managers_)}
OwnedIds == {memory_manager_ptr_[m].id : m \in Mmaps} \ {0}

\* ------------------------------------------- the Master Key rotation lock
\* gcache_rb_store.cpp: mk_rotation_mutex_ and the threads that go through
\* rotate_master_key and write_preamble while the ring buffer is open.
MaxRotations == 2    \* rotate_master_key is called while master_key_id_
                     \* is at most MaxRotations

\* the thread of the rotation request and the thread that calls
\* seqno_reset and, last, the destructor
RotThreads == {"rotator", "writer"}

\* the file key that open_preamble gave to mmap_.set_key
FileKeyInUse == KeyStr(1)

\* mk_rotation_mutex_ with nobody in it
RotMutexFree == [owner |-> "none", depth |-> 0]

\* the locals of a thread: where it is, the text write_preamble has put
\* together, the argument of write_preamble, and those of rotate_master_key
RotLocals(pc) ==
    [pc |-> pc, os_id |-> 0, os_fk |-> EmptyStr, synced |-> FALSE,
     unencrypted_file_key |-> EmptyStr, new_mk |-> 0]

VARIABLES
    mk_rotation_mutex_,   \* the recursive mutex: owner and depth
    rthr,                 \* the threads: locals and position
    rmk,                  \* master_key_id_ and file_key_ of the object
    rkeys,                \* the keyring: the Master Key byte of each id,
                          \* 0 for none
    rpre,                 \* the preamble on file: synced, enc_mk_id,
                          \* enc_fk_id
    closing               \* the destructor has been entered

rotvars == <<mk_rotation_mutex_, rthr, rmk, rkeys, rpre, closing>>

\* the object after open_preamble has generated Master Key 1 and a file key
InitRot ==
    /\ mk_rotation_mutex_ = RotMutexFree
    /\ rthr = [t \in RotThreads |-> RotLocals("idle")]
    /\ rmk = [master_key_id_ |-> 1,
              file_key_ |-> encode64(encrypt_key(FileKeyInUse, KeyStr(1)))]
    /\ rkeys = [i \in 1 .. (MaxRotations + 1) |-> IF i = 1 THEN 1 ELSE 0]
    /\ rpre = [synced |-> FALSE, mk_id |-> 1,
               file_key |-> encode64(encrypt_key(FileKeyInUse, KeyStr(1)))]
    /\ closing = FALSE

\* Faulty variant of the lock: it lets a thread in whoever holds the mutex.
recursive_lock_blind(mtx, t) ==
    [ok |-> TRUE, mtx |-> [owner |-> t, depth |-> mtx.depth + 1]]

\* RecursiveLock::RecursiveLock: pthread_mutex_lock of a recursive mutex,
\* which goes through when the mutex is free or the caller holds it
recursive_lock(mtx, t) ==
    IF mtx.owner \in {"none", t}
    THEN [ok |-> TRUE, mtx |-> [owner |-> t, depth |-> mtx.depth + 1]]
    ELSE [ok |-> FALSE, mtx |-> mtx]

\* RecursiveLock::~RecursiveLock
recursive_unlock(mtx) ==
    IF mtx.depth <= 1 THEN RotMutexFree ELSE [mtx EXCEPT !.depth = @ - 1]

\* ------------------------------------------------------ SocketWatchdog
\* socket_watchdog.cpp: SocketWatchdogImpl with its timer thread t_, the
\* threads that call start() and stop(), and the destructor.
ExpireCnt == 2    \* expire_cnt_ = timeoutMs / 10: the 10 ms waits before the
                  \* expiry callback is called

\* the locals of the timer thread and where it is
TimerLocals(pc, alive, active, restarted, counter) ==
    [pc |-> pc, aliveSnapshot |-> alive, activeSnapshot |-> active,
     restartSnapshot |-> restarted, counter |-> counter]

VARIABLES
    active_,     \* SocketWatchdogImpl::active_
    alive_,      \* SocketWatchdogImpl::alive_
    restart_,    \* SocketWatchdogImpl::restart_
    tmr,         \* the timer thread t_
    wdtor,       \* the destructor: "none", "join", "joined"
    wlast        \* the last call: its name, and whether the expiry
                 \* callback was running when it was made

wdvars == <<active_, alive_, restart_, tmr, wdtor, wlast>>

WdOp(op, in_cb) == [op |-> op, in_cb |-> in_cb]

\* SocketWatchdogImpl::SocketWatchdogImpl: the members are set and t_ is
\* started
InitWd ==
    /\ active_ = FALSE
    /\ alive_ = TRUE
    /\ restart_ = TRUE
    /\ tmr = TimerLocals("begin", FALSE, FALSE, FALSE, 0)
    /\ wdtor = "none"
    /\ wlast = WdOp("init", FALSE)

\* cv_.notify_one(): the timer thread, when it waits on cv_, is woken
notify_one(t) == IF t.pc = "wait" THEN [t EXCEPT !.pc = "woken"] ELSE t

\* lines 38-48 once "while (!active_) cv_.wait(lock)" is passed: the flags
\* are collected and restart_ is cleared
collect(t, active, alive) ==
    [t EXCEPT !.pc = "timer", !.activeSnapshot = active,
              !.aliveSnapshot = alive, !.restartSnapshot = FALSE,
              !.counter = ExpireCnt]

\* ---------------------------------------------------------- all state
vars == <<ringvars, encvars, lockvars, svcvars, mkvars, poolvars, rotvars, wdvars>>

\* what the operations of one object leave alone
nonring == <<encvars, lockvars, svcvars, mkvars, poolvars, rotvars, wdvars>>
nonenc  == <<ringvars, lockvars, svcvars, mkvars, poolvars, rotvars, wdvars>>
nonlock == <<ringvars, encvars, svcvars, mkvars, poolvars, rotvars, wdvars>>
nonsvc  == <<ringvars, encvars, lockvars, mkvars, poolvars, rotvars, wdvars>>
nonmk   == <<ringvars, encvars, lockvars, svcvars, poolvars, rotvars, wdvars>>
nonpool == <<ringvars, encvars, lockvars, svcvars, mkvars, rotvars, wdvars>>
nonrot  == <<ringvars, encvars, lockvars, svcvars, mkvars, poolvars, wdvars>>
nonwd   == <<ringvars, encvars, lockvars, svcvars, mkvars, poolvars, rotvars>>

\* the object as one value, and its assignment to the next state
Self == RB(mem, first, next, size_trail, size_free, size_used, seqno2ptr, ub)

Becomes(rb) ==
    /\ mem' = rb.mem
    /\ first' = rb.first
    /\ next' = rb.next
    /\ size_trail' = rb.size_trail
    /\ size_free' = rb.size_free
    /\ size_used' = rb.size_used
    /\ seqno2ptr' = rb.seqno2ptr
    /\ ub' = rb.ub
    /\ UNCHANGED nonring

\* n: the number of index entries the operation erased
Op(name, size, ptr, seqno, ret, n) ==
    [op |-> name, size |-> size, ptr |-> ptr, seqno |-> seqno, ret |-> ret,
     n |-> n]

\* no call is in progress: the operations are called one at a time
NoCall == Op("idle", 0, Null, 0, Null, 0)

Idle == last = NoCall

Erased(rb) ==
    Cardinality(IndexSet(seqno2ptr)) - Cardinality(IndexSet(rb.seqno2ptr))

RECURSIVE SumSizes(_, _)
SumSizes(m, S) ==
    IF S = {} THEN 0
    ELSE LET p == CHOOSE x \in S : TRUE IN m[p].size + SumSizes(m, S \ {p})

\* requested sizes: every size malloc accepts and one it rejects as oversize
AllocSizes == (BHSize + 1) .. (size_cache_ \div 2 + 1)

\* RingBuffer::RingBuffer on a fresh file, recover == false
Init ==
    /\ mem = [q \in Offsets |-> ClearBH]
    /\ first = start_
    /\ next = start_
    /\ size_trail = 0
    /\ size_free = size_cache_
    /\ size_used = 0
    /\ seqno2ptr = EmptyIndex
    /\ ub = FALSE
    /\ held = {}
    /\ seqno_max = 0
    /\ last = NoCall
    /\ enc = EncMMap(BlankFile, 1, alloc_pages_cnt_(1), BlankPool, NoKeys)
    /\ latest = OnFile(enc)
    /\ acc = NoAccess
    /\ elast = NoStep
    /\ InitLock
    /\ InitSvc
    /\ InitMk
    /\ InitPool
    /\ InitRot
    /\ InitWd

\* malloc(size); the caller then fills the payload
Malloc(size, d) ==
    LET r == malloc(Self, size) IN
    /\ Idle
    /\ Becomes(IF r.ret = Null THEN r.rb
               ELSE [r.rb EXCEPT !.mem = WritePayload(@, r.ret, size, d)])
    /\ held' = IF r.ret = Null THEN held ELSE held \cup {r.ret}
    /\ last' = Op("malloc", size, Null, 0, r.ret, Erased(r.rb))
    /\ UNCHANGED seqno_max

\* GCache::free(ptr): BH_release(bh), then RingBuffer::free(bh)
Free(p) ==
    /\ Idle
    /\ p \in held
    /\ Becomes(free([Self EXCEPT !.mem[p].released = TRUE], p))
    /\ held' = held \ {p}
    /\ last' = Op("free", 0, p, mem[p].seqno_g, Null, 0)
    /\ UNCHANGED seqno_max

\* realloc(ptr, size) of a buffer that has no seqno yet
Realloc(p, size) ==
    LET r == realloc(Self, p, size) IN
    /\ Idle
    /\ p \in held
    /\ mem[p].seqno_g = SEQNO_NONE
    /\ LET h == IF r.ret = Null THEN held ELSE (held \ {p}) \cup {r.ret}
       IN  SumSizes(r.rb.mem, h) - r.rb.size_used <= MaxSkew
    /\ Becomes(r.rb)
    /\ held' = IF r.ret = Null THEN held ELSE (held \ {p}) \cup {r.ret}
    /\ last' = Op("realloc", size, p, 0, r.ret, Erased(r.rb))
    /\ UNCHANGED seqno_max

\* GCache::seqno_assign(ptr, seqno): every seqno is assigned, in order
AssignSeqno(p, s) ==
    /\ Idle
    /\ p \in held
    /\ mem[p].seqno_g = SEQNO_NONE
    /\ s = seqno_max + 1
    /\ Becomes([Self EXCEPT !.mem[p].seqno_g = s, !.seqno2ptr[s] = p])
    /\ seqno_max' = s
    /\ last' = Op("assign", 0, p, s, Null, 0)
    /\ UNCHANGED held

\* seqno_release(s): discard the index prefix up to s
SeqnoRelease(s) ==
    LET r == discard_seqnos(Self, s) IN
    /\ Idle
    /\ Becomes(r.rb)
    /\ last' = Op("release", 0, Null, s, IF r.ret THEN 1 ELSE 0, Erased(r.rb))
    /\ UNCHANGED <<held, seqno_max>>

\* position of p in the ring, counted from first_
RingPos(p) == IF p >= first THEN p - first ELSE p + RingLen - first

\* GCache::seqno_reset: RingBuffer::seqno_reset(), then the index is cleared
\* and seqnos start over.  Called in isolation: every ordered buffer is
\* released and the unreleased buffers were allocated after them.
SeqnoReset(zero_out) ==
    /\ Idle
    /\ \A s \in IndexSet(seqno2ptr) :
          /\ BH_is_released(mem[seqno2ptr[s]])
          /\ \A h \in held : RingPos(h) > RingPos(seqno2ptr[s])
    /\ Becomes([seqno_reset(Self, zero_out) EXCEPT !.seqno2ptr = EmptyIndex])
    /\ seqno_max' = SEQNO_NONE
    /\ last' = Op("seqno_reset", 0, Null, 0, IF zero_out THEN 1 ELSE 0, 0)
    /\ UNCHANGED held

\* what scan() makes of the file when the next process constructs the ring
\* buffer with recovery: the object with the index of every seqno found, and
\* erase_up_to
Scanned(clean) ==
    scan(RB(mem, start_, start_, 0, size_cache_, 0, EmptyIndex, FALSE),
         IF clean /\ IndexSet(seqno2ptr) # {} THEN first - start_ ELSE -1)

\* The process ends, cleanly (close_preamble() stores the offset of first_
\* when the index is not empty) or not (no offset in the preamble), and a
\* new one constructs the ring buffer over the same file.  n: the index
\* entries scan() made and recover() erased again;
\* size: the seqno collisions scan() met.
Restart(clean, do_recover) ==
    LET offset == IF clean /\ IndexSet(seqno2ptr) # {} THEN first - start_
                  ELSE -1
        rb     == construct(mem, offset, do_recover)
        found  == IndexSet(Scanned(clean).rb.seqno2ptr)
    IN
    /\ Idle
    /\ Becomes(rb)
    /\ held' = {}
    /\ seqno_max' = IF IndexSet(rb.seqno2ptr) = {} THEN SEQNO_NONE
                    ELSE index_back(rb.seqno2ptr)
    /\ last' = Op("restart",
                  IF do_recover THEN Cardinality(Scanned(clean).hits) ELSE 0,
                  Null, 0, IF do_recover THEN 1 ELSE 0,
                  IF do_recover
                  THEN Cardinality(found) - Cardinality(IndexSet(rb.seqno2ptr))
                  ELSE 0)

\* the call returns to its caller, the object as the call left it
Return ==
    /\ ~Idle
    /\ last' = NoCall
    /\ UNCHANGED <<mem, first, next, size_trail, size_free, size_used,
                   seqno2ptr, ub, held, seqno_max, nonring>>

Next ==
    \/ Return
    \/ \E size \in AllocSizes, d \in DataVals : Malloc(size, d)
    \/ \E p \in Offsets : Free(p)
    \/ \E p \in Offsets, size \in AllocSizes : Realloc(p, size)
    \/ \E p \in Offsets, s \in Seqnos : AssignSeqno(p, s)
    \/ \E s \in Seqnos : SeqnoRelease(s)
    \/ \E zero_out \in BOOLEAN : SeqnoReset(zero_out)
    \/ \E clean \in BOOLEAN, do_recover \in BOOLEAN : Restart(clean, do_recover)

Spec == Init /\ [][Next]_vars

\* ---------------------------------------------------- EncMMap actions
\* The client thread touches the virtual page v, to read or to write, the
\* protection of the page does not let the access through, and the
\* hardware raises the fault: signal_handler -> EncMMap::handle_signal.
\* n: the pages the handler evicted.
Touch(v, w) ==
    /\ ~Accessible(enc, v, w)
    /\ enc' = Forget(handle_signal(enc, v))
    /\ elast' = EOp("fault", Cardinality(Mapped(enc) \ Mapped(enc')))

\* a fault of the client thread outside of the access that acc follows
Fault(v, w) ==
    /\ elast = NoStep
    /\ acc = NoAccess
    /\ ~enc.abort
    /\ Touch(v, w)
    /\ UNCHANGED <<latest, acc, nonenc>>

\* the bytes of the units us become val in the pages mapped there
Store(m, us, val) ==
    [m EXCEPT !.pmem =
        [p \in PPages |-> [i \in 1 .. page_size_ |->
            IF \E u \in us : /\ m.vpage2ppage[u \div page_size_] = p
                             /\ (u % page_size_) + 1 = i
            THEN Plain(val) ELSE m.pmem[p][i]]]]

\* the client writes val to len units at u (a memcpy), and the pages let
\* the write through
Write(u, len, val) ==
    /\ elast = NoStep
    /\ acc = NoAccess
    /\ ~enc.abort
    /\ u + len <= VmemSize
    /\ \A x \in u .. (u + len - 1) : Accessible(enc, x \div page_size_, TRUE)
    /\ enc' = Store(enc, u .. (u + len - 1), val)
    /\ latest' = [x \in Units |-> IF x \in u .. (u + len - 1) THEN val
                                  ELSE latest[x]]
    /\ elast' = EOp("write", 0)
    /\ UNCHANGED <<acc, nonenc>>

\* EncMMap::sync(); n: the pages it flushed
Sync ==
    /\ elast = NoStep
    /\ acc = NoAccess
    /\ ~enc.abort
    /\ enc' = sync(enc)
    /\ elast' = EOp("sync", Cardinality(Dirty(enc)))
    /\ UNCHANGED <<latest, acc, nonenc>>

\* EncMMap::set_key(key); n: the dirty pages it dropped.  File keys are
\* generated at random: a key that has been replaced does not come back.
SetKey(key) ==
    /\ elast = NoStep
    /\ acc = NoAccess
    /\ ~enc.abort
    /\ key >= enc.key
    /\ enc' = Forget(set_key(enc, key))
    /\ latest' = OnFile(enc)
    /\ elast' = EOp("set_key", Cardinality(Dirty(enc)))
    /\ UNCHANGED <<acc, nonenc>>

\* EncMMap::set_access_mode(READ) or (READ_WRITE)
SetAccessMode(read) ==
    /\ elast = NoStep
    /\ acc = NoAccess
    /\ ~enc.abort
    /\ enc' = set_access_mode(enc, read)
    /\ elast' = EOp("mode", IF read THEN 1 ELSE 0)
    /\ UNCHANGED <<latest, acc, nonenc>>

\* EncMMap::~EncMMap (unmap() syncs when sync_on_destroy_; free_all(); the
\* pool goes back to memory_manager_pool), then EncMMap::EncMMap over the
\* same file with a cache of n pages: memory_manager_pool.allocate() hands
\* out the pool just released when it is large enough and a new one
\* otherwise.  n: the pages that were mapped when the object was destroyed.
Reopen(n, key, sync_on_destroy) ==
    LET old   == IF sync_on_destroy THEN sync(enc) ELSE enc
        reuse == old.alloc_pages_cnt >= n
    IN
    /\ elast = NoStep
    /\ acc = NoAccess
    /\ ~enc.abort
    /\ key >= enc.key
    /\ enc' = Forget(EncMMap(old.raw, key,
                             IF reuse THEN old.alloc_pages_cnt
                             ELSE alloc_pages_cnt_(n),
                             IF reuse THEN old.pmem ELSE BlankPool,
                             IF reuse THEN old.pkey ELSE NoKeys))
    /\ latest' = IF sync_on_destroy /\ key = enc.key THEN latest
                 ELSE OnFile(old)
    /\ elast' = EOp("reopen", Cardinality(Mapped(enc)))
    /\ UNCHANGED <<acc, nonenc>>

\* the step has been looked at
EncReturn ==
    /\ elast # NoStep
    /\ elast' = NoStep
    /\ UNCHANGED <<enc, latest, acc, nonenc>>

\* the file under one key: set_key and the constructor are given the key
\* the file has
NextEnc ==
    \/ EncReturn
    \/ \E v \in VPages, w \in BOOLEAN : Fault(v, w)
    \/ \E u \in Units, len \in 1 .. 2, val \in Vals : Write(u, len, val)
    \/ Sync
    \/ SetKey(enc.key)
    \/ \E read \in BOOLEAN : SetAccessMode(read)
    \/ \E n \in PoolSizes, sync_on_destroy \in BOOLEAN :
          Reopen(n, enc.key, sync_on_destroy)

SpecEnc == Init /\ [][NextEnc]_vars

\* the key of the file changes
NextKey ==
    \/ EncReturn
    \/ \E v \in VPages, w \in BOOLEAN : Fault(v, w)
    \/ \E u \in Units, len \in 1 .. 2, val \in Vals : Write(u, len, val)
    \/ Sync
    \/ \E key \in Keys : SetKey(key)

SpecKey == Init /\ [][NextKey]_vars

\* ------------------------------------------- one access, fault by fault
\* The client thread executes one access to the two units at u, the last of
\* a virtual page and the first of the next (a memcpy across the boundary):
\* a read, or a write of val.  faults counts the faults of the access, lost
\* the times a fault of the access evicted a page of the access.
BeginAccess(u, w, val) ==
    /\ elast = NoStep
    /\ acc = NoAccess
    /\ ~enc.abort
    /\ u + 2 <= VmemSize
    /\ u % page_size_ = page_size_ - 1
    /\ w \/ val = 1
    /\ acc' = [u |-> u, len |-> 2, w |-> w, val |-> val, faults |-> 0,
               lost |-> 0]
    /\ UNCHANGED <<enc, latest, elast, nonenc>>

\* the access faults on the page v, one of its two pages
AccFault(v) ==
    /\ elast = NoStep
    /\ acc # NoAccess
    /\ ~enc.abort
    /\ v \in AccPages(acc)
    /\ acc.faults < MaxFaults
    /\ Touch(v, acc.w)
    /\ acc' = [acc EXCEPT !.faults = @ + 1,
                          !.lost = IF (Mapped(enc) \cap AccPages(acc))
                                        \subseteq Mapped(enc')
                                   THEN @ ELSE @ + 1]
    /\ UNCHANGED <<latest, nonenc>>

\* the handler has returned, both pages let the access through: the
\* hardware completes it
Complete ==
    /\ elast = NoStep
    /\ acc # NoAccess
    /\ \A v \in AccPages(acc) : Accessible(enc, v, acc.w)
    /\ enc' = IF acc.w THEN Store(enc, AccUnits(acc), acc.val) ELSE enc
    /\ latest' = IF acc.w
                 THEN [x \in Units |-> IF x \in AccUnits(acc) THEN acc.val
                                       ELSE latest[x]]
                 ELSE latest
    /\ acc' = NoAccess
    /\ UNCHANGED <<elast, nonenc>>

\* the pool is the one Init made, asked for one page
NextPool2 ==
    \/ EncReturn
    \/ \E v \in VPages, w \in BOOLEAN : Fault(v, w)
    \/ \E u \in Units, w \in BOOLEAN, val \in Vals : BeginAccess(u, w, val)
    \/ \E v \in VPages : AccFault(v)
    \/ Complete
    \/ Sync
    \/ \E key \in Keys : SetKey(key)
    \/ \E read \in BOOLEAN : SetAccessMode(read)

\* a fault of the access is due: AccFault is enabled
FaultPending ==
    /\ elast = NoStep
    /\ acc # NoAccess
    /\ ~enc.abort
    /\ acc.faults < MaxFaults
    /\ \E v \in AccPages(acc) : ~Accessible(enc, v, acc.w)

\* The hardware re-executes the faulting access when the handler has
\* returned, and nothing else runs in the one client thread meanwhile: the
\* return, the fault that is due and the completion are weakly fair (the
\* fairness of the fault is written out with FaultPending).
SpecPool2 ==
    /\ Init
    /\ [][NextPool2]_vars
    /\ WF_vars(EncReturn)
    /\ []<>(~FaultPending) \/ []<><<\E v \in VPages : AccFault(v)>>_vars
    /\ WF_vars(Complete)

\* ------------------------------------------------ EncMMap lock actions
\* the thread t enters handle_signal (a fault in the mapping), sync(),
\* sync(addr, length) or set_key()
Enter(t, op) ==
    /\ thr[t].pc = "idle"
    /\ thr[t].n < MaxCalls
    /\ thr' = [thr EXCEPT ![t] = [op |-> op, pc |-> "call", n |-> @.n + 1]]
    /\ UNCHANGED <<lock_, nonlock>>

\* handle_signal: "if (!try_lock()) return;", the others: one round of the
\* loop of lock().  A round of lock() that fails yields and is tried again.
TryLock(t) ==
    LET r == try_lock(lock_) IN
    /\ thr[t].pc = "call"
    /\ lock_' = r.flag
    /\ thr' = [thr EXCEPT ![t].pc =
                  IF r.ok THEN "locked"
                  ELSE IF thr[t].op = "fault" THEN "pending" ELSE "call"]
    /\ UNCHANGED nonlock

\* the hardware raises the fault again: the access of t has not been served
Redeliver(t) ==
    /\ thr[t].pc = "pending"
    /\ thr' = [thr EXCEPT ![t].pc = "call"]
    /\ UNCHANGED <<lock_, nonlock>>

\* the body between lock and unlock, in two steps
Work(t) ==
    /\ thr[t].pc \in {"locked", "work"}
    /\ thr' = [thr EXCEPT ![t].pc = IF @ = "locked" THEN "work" ELSE "unlock"]
    /\ UNCHANGED <<lock_, nonlock>>

\* unlock() and the return
Unlock(t) ==
    /\ thr[t].pc = "unlock"
    /\ lock_' = unlock(lock_)
    /\ thr' = [thr EXCEPT ![t] = Outside(@.n)]
    /\ UNCHANGED nonlock

ThreadStep(t) ==
    \/ \E op \in LockOps : Enter(t, op)
    \/ TryLock(t)
    \/ Redeliver(t)
    \/ Work(t)
    \/ Unlock(t)

NextLock == \E t \in Threads : ThreadStep(t)

\* every thread goes on running
SpecLock == Init /\ [][NextLock]_vars /\ \A t \in Threads : WF_vars(ThreadStep(t))

\* ------------------------------------------------ ServiceThd actions
\* callers come while the object is alive: before the destructor
Alive == dtor = "none"

\* ServiceThd::report_last_committed(seqno, report)
ReportLastCommitted(seqno, report) ==
    LET r == report_last_committed(data_, wk, seqno, report) IN
    /\ Alive
    /\ data_' = r.d
    /\ wk' = r.w
    /\ slast' = SOp("call", 0, 0)
    /\ UNCHANGED <<fl, dtor, handed, nreset, nonsvc>>

\* ServiceThd::release_seqno(seqno, reset)
ReleaseSeqno(seqno, do_reset) ==
    LET r == release_seqno(data_, wk, seqno, do_reset) IN
    /\ Alive
    /\ data_' = r.d
    /\ wk' = r.w
    /\ slast' = SOp("call", 0, 0)
    /\ UNCHANGED <<fl, dtor, handed, nreset, nonsvc>>

\* ServiceThd::reset: what was scheduled and not taken is dropped
Reset ==
    /\ Alive
    /\ nreset < MaxResets
    /\ data_' = [data_ EXCEPT !.act_ = A_NONE,
                              !.last_committed_ = SEQNO_UNDEFINED]
    /\ fl' = [c \in Flushers |->
                 [fl[c] EXCEPT !.reset = @ \/ fl[c].pc # "out"]]
    /\ wk' = [wk EXCEPT !.reset = @ \/ wk.pc \in {"lc", "rs"}]
    /\ handed' = NotHanded
    /\ nreset' = nreset + 1
    /\ slast' = SOp("call", 0, 0)
    /\ UNCHANGED <<dtor, nonsvc>>

\* ServiceThd::flush, up to lock.wait(flush_); with A_EXIT set it returns
\* (the GTID it then writes keeps its seqno)
FlushEnter(c) ==
    /\ dtor # "joined"
    /\ fl[c].pc = "out"
    /\ IF "A_EXIT" \in data_.act_
       THEN /\ UNCHANGED <<data_, wk, fl>>
            /\ slast' = SOp("call", 0, 0)
       ELSE /\ wk' = IF data_.act_ = A_NONE THEN signal(wk) ELSE wk
            /\ data_' = [data_ EXCEPT !.act_ = @ \cup {"A_FLUSH"}]
            /\ fl' = [fl EXCEPT ![c] = [pc |-> "wait",
                                        owed |-> Found(data_, wk),
                                        n |-> Cardinality(Found(data_, wk)),
                                        reset |-> FALSE,
                                        late |-> dtor # "none"]]
            /\ slast' = SOp("call", 0, 0)
    /\ UNCHANGED <<dtor, handed, nreset, nonsvc>>

\* pthread_cond_wait may return without a signal
FlushSpurious(c) ==
    /\ fl[c].pc = "wait"
    /\ fl' = [fl EXCEPT ![c].pc = "woken"]
    /\ slast' = SOp("step", 0, 0)
    /\ UNCHANGED <<data_, wk, dtor, handed, nreset, nonsvc>>

\* flush: "while (data_.act_ & A_FLUSH)", under the mutex again: wait once
\* more or return
FlushCheck(c) ==
    /\ fl[c].pc = "woken"
    /\ IF "A_FLUSH" \in data_.act_
       THEN /\ fl' = [fl EXCEPT ![c].pc = "wait"]
            /\ slast' = SOp("step", 0, 0)
       ELSE /\ fl' = [fl EXCEPT ![c] = NoFlush]
            /\ slast' = SOp("flush_return", c, fl[c].n)
    /\ UNCHANGED <<data_, wk, dtor, handed, nreset, nonsvc>>

\* thd_func: "if (A_NONE == st->data_.act_) lock.wait(st->cond_)"
WkWait ==
    /\ wk.pc = "top"
    /\ data_.act_ = A_NONE
    /\ wk' = [wk EXCEPT !.pc = "sleep"]
    /\ slast' = SOp("step", 0, 0)
    /\ UNCHANGED <<data_, fl, dtor, handed, nreset, nonsvc>>

\* pthread_cond_wait may return without a signal
WkSpurious ==
    /\ wk.pc = "sleep"
    /\ wk' = [wk EXCEPT !.pc = "woken"]
    /\ slast' = SOp("step", 0, 0)
    /\ UNCHANGED <<data_, fl, dtor, handed, nreset, nonsvc>>

\* thd_func, lines 42-59: the worker takes what is scheduled
WkTake ==
    /\ \/ wk.pc = "woken"
       \/ wk.pc = "top" /\ data_.act_ # A_NONE
    /\ wk' = IF after_take(data_) \in {"lc", "rs"}
             THEN [pc |-> after_take(data_), data |-> data_, reset |-> FALSE]
             ELSE [pc |-> after_take(data_), data |-> NoData, reset |-> FALSE]
    /\ data_' = take(data_)
    /\ fl' = LET f == IF data_.act_ = {"A_FLUSH"} THEN broadcast(fl) ELSE fl
              IN  [c \in Flushers |->
                      [f[c] EXCEPT !.owed = Taken(@, data_.act_)]]
    /\ slast' = SOp("step", 0, 0)
    /\ UNCHANGED <<dtor, handed, nreset, nonsvc>>

\* thd_func: gcs_.set_last_applied(data.last_committed_) returns ret
WkLastCommitted(ret) ==
    /\ wk.pc = "lc"
    /\ wk' = IF "A_RELEASE_SEQNO" \in wk.data.act_
             THEN [wk EXCEPT !.pc = "rs"]
             ELSE AtTop
    /\ fl' = [c \in Flushers |->
                 [fl[c] EXCEPT !.owed = @ \ {<<"A_LAST_COMMITTED", "exec">>}]]
    /\ handed' = [seqno |-> wk.data.last_committed_,
                   taken |-> IF wk.reset THEN handed.taken
                             ELSE wk.data.last_committed_]
    /\ slast' = SOp("set_last_applied", wk.data.last_committed_, ret)
    /\ UNCHANGED <<data_, dtor, nreset, nonsvc>>

\* thd_func: gcache_.seqno_release(data.release_seqno_), an exception is
\* caught; "data.release_seqno_ = 0" is made in the local data, which end
\* with this turn of the loop: st->data_ is not written
WkReleaseSeqno ==
    /\ wk.pc = "rs"
    /\ wk' = AtTop
    /\ fl' = [c \in Flushers |->
                 [fl[c] EXCEPT !.owed = @ \ {<<"A_RELEASE_SEQNO", "exec">>}]]
    /\ slast' = SOp("seqno_release", wk.data.release_seqno_, 0)
    /\ UNCHANGED <<data_, dtor, handed, nreset, nonsvc>>

\* ServiceThd::~ServiceThd, under the mutex: A_EXIT, cond_.signal(),
\* flush_.broadcast()
Shutdown ==
    LET r == shutdown(data_, wk) IN
    /\ Alive
    /\ data_' = r.d
    /\ wk' = r.w
    /\ fl' = broadcast(fl)
    /\ dtor' = "join"
    /\ slast' = SOp("call", 0, 0)
    /\ UNCHANGED <<handed, nreset, nonsvc>>

\* gu_thread_join returns
Join ==
    /\ dtor = "join"
    /\ wk.pc = "exited"
    /\ dtor' = "joined"
    /\ slast' = SOp("step", 0, 0)
    /\ UNCHANGED <<data_, wk, fl, handed, nreset, nonsvc>>

WorkerStep ==
    \/ WkWait
    \/ WkTake
    \/ \E ret \in {-1, 0} : WkLastCommitted(ret)
    \/ WkReleaseSeqno

NextSvc ==
    \/ \E seqno \in GcsSeqnos, report \in BOOLEAN :
          ReportLastCommitted(seqno, report)
    \/ \E seqno \in GcsSeqnos, do_reset \in BOOLEAN :
          ReleaseSeqno(seqno, do_reset)
    \/ Reset
    \/ \E c \in Flushers : FlushEnter(c)
    \/ \E c \in Flushers : FlushSpurious(c)
    \/ \E c \in Flushers : FlushCheck(c)
    \/ WkSpurious
    \/ WorkerStep
    \/ Shutdown
    \/ Join

\* the worker, a thread woken in flush() and the join go on running
SpecSvc ==
    /\ Init
    /\ [][NextSvc]_vars
    /\ WF_vars(WorkerStep)
    /\ \A c \in Flushers : WF_vars(FlushCheck(c))
    /\ WF_vars(Join)

\* ------------------------------------------------- Master Key actions
\* RingBuffer::RingBuffer: open_preamble, then reset() or recovery, then
\* write_preamble(false); nothing is written when open_preamble throws
Open(enc_on, u_const, u_mk, created, b, fkb) ==
    LET o == open_preamble(preamble, keyring, enc_on, u_const, u_mk,
                           created, b, fkb) IN
    /\ mpc = "closed"
    /\ IF o.gen_const THEN u_const \in FreshUuids(keyring, preamble)
                      ELSE u_const = GU_UUID_NIL
    /\ IF o.gen_mk THEN u_mk \in FreshUuids(keyring, preamble) \ {u_const}
                   ELSE u_mk = GU_UUID_NIL /\ created /\ b = 1
    /\ o.new_fk \/ fkb = 1
    /\ keyring' = o.kr
    /\ IF o.throws
       THEN /\ mlast' = MOp("open", TRUE, o.why, FALSE)
            /\ UNCHANGED <<preamble, rbenc, mpc, mmap_key, data_key>>
       ELSE /\ rbenc' = o.rb
            /\ preamble' = write_preamble(o.rb, FALSE)
            /\ mpc' = "open"
            /\ mmap_key' = o.key
            /\ data_key' = IF o.reset THEN o.key ELSE data_key
            /\ mlast' = MOp("open", FALSE, o.why, o.reset)
    /\ UNCHANGED <<rot, nonmk>>

\* rotate_master_key up to generate_new_master_key: it returns true when
\* the Master Key in use is not in the keyring
RotateBegin(created, b) ==
    LET old_mk == get_key(keyring, create_master_key_name(
                      rbenc.const_mk_id_, rbenc.master_key_uuid_, rbenc.master_key_id_))
        g == generate_new_master_key(
                 keyring, create_master_key_name(rbenc.const_mk_id_,
                     rbenc.master_key_uuid_, rbenc.master_key_id_ + 1), created, b)
    IN
    /\ mpc = "open"
    /\ rbenc.encrypt_
    /\ rbenc.master_key_id_ < MaxMkId
    /\ IF old_mk = EmptyStr
       THEN /\ created /\ b = 1
            /\ mlast' = MOp("rotate", TRUE, "missing", FALSE)
            /\ UNCHANGED <<keyring, mpc, rot>>
       ELSE /\ keyring' = g.kr
            /\ mpc' = "rotating"
            /\ rot' = [old_mk |-> old_mk,
                       unencrypted_file_key |->
                           decrypt_key(decode64(rbenc.file_key_), old_mk),
                       new_mk |-> g.key]
            /\ mlast' = MOp("generate", g.key = EmptyStr,
                            IF get_key(keyring, create_master_key_name(
                                   rbenc.const_mk_id_, rbenc.master_key_uuid_,
                                   rbenc.master_key_id_ + 1)) # EmptyStr
                            THEN "next" ELSE "create", FALSE)
    /\ UNCHANGED <<preamble, rbenc, mmap_key, data_key, nonmk>>

\* rotate_master_key from "if (new_mk.empty())" on
RotateEnd ==
    LET r == rotate_master_key(rbenc, rot.unencrypted_file_key, rot.new_mk) IN
    /\ mpc = "rotating"
    /\ rbenc' = r.rb
    /\ preamble' = IF r.ret THEN preamble ELSE write_preamble(r.rb, FALSE)
    /\ mpc' = "open"
    /\ rot' = NoRot
    /\ mlast' = MOp("rotate", r.ret, mlast.why, FALSE)
    /\ UNCHANGED <<keyring, mmap_key, data_key, nonmk>>

\* RingBuffer::~RingBuffer: close_preamble
Close ==
    /\ mpc = "open"
    /\ preamble' = write_preamble(rbenc, TRUE)
    /\ mpc' = "closed"
    /\ rbenc' = NewRb(FALSE)
    /\ mmap_key' = EmptyStr
    /\ mlast' = MOp("close", FALSE, "none", FALSE)
    /\ UNCHANGED <<keyring, data_key, rot, nonmk>>

\* the process dies: the file and the keyring stay as they are
Crash ==
    /\ mpc \in {"open", "rotating"}
    /\ mpc' = "closed"
    /\ rbenc' = NewRb(FALSE)
    /\ mmap_key' = EmptyStr
    /\ rot' = NoRot
    /\ mlast' = MOp("crash", FALSE, "none", FALSE)
    /\ UNCHANGED <<keyring, preamble, data_key, nonmk>>

\* the keyring loses a key
LoseKey(k) ==
    /\ k \in keyring
    /\ keyring' = keyring \ {k}
    /\ mlast' = MOp("lose", FALSE, "none", FALSE)
    /\ UNCHANGED <<preamble, rbenc, mpc, mmap_key, data_key, rot, nonmk>>

\* the file is damaged while it is closed: another Master Key id, the CRC
\* as it was
Damage(id) ==
    /\ mpc = "closed"
    /\ preamble.enc_encrypted
    /\ id # preamble.mk_id
    /\ preamble' = [preamble EXCEPT !.mk_id = id]
    /\ mlast' = MOp("damage", FALSE, "none", FALSE)
    /\ UNCHANGED <<keyring, rbenc, mpc, mmap_key, data_key, rot, nonmk>>

\* RingBuffer::seqno_reset while the ring buffer is open: write_preamble(false)
\* on entry (and once more in reset() when the ring turns out empty), under
\* mk_rotation_mutex_, which rotate_master_key holds from its first line
MkSeqnoReset ==
    /\ mpc = "open"
    /\ preamble' = write_preamble(rbenc, FALSE)
    /\ mlast' = MOp("seqno_reset", FALSE, "none", FALSE)
    /\ UNCHANGED <<keyring, rbenc, mpc, mmap_key, data_key, rot, nonmk>>

NextMk ==
    \/ \E enc_on \in BOOLEAN, u_const, u_mk \in Uuids \cup {GU_UUID_NIL},
          created \in BOOLEAN, b, fkb \in KeyBytes :
          Open(enc_on, u_const, u_mk, created, b, fkb)
    \/ \E created \in BOOLEAN, b \in KeyBytes : RotateBegin(created, b)
    \/ RotateEnd
    \/ Close
    \/ Crash
    \/ \E k \in keyring : LoseKey(k)
    \/ \E id \in 1 .. MaxMkId : Damage(id)
    \/ MkSeqnoReset

SpecMk == Init /\ [][NextMk]_vars

\* ------------------------------------------- PMemoryManagerPool actions
\* EncMMap::EncMMap: memory_manager_pool.allocate(cache_page_size,
\* cache_size), under mtx_; std::make_shared when the registry gives nothing
PoolAllocate(m, alloc_page_size, size) ==
    LET a  == allocate(managers_, pool_size_, timestamp_server + 1,
                       alloc_page_size, size)
        id == CHOOSE n \in ManagerIds : n \notin HeldIds \cup OwnedIds
    IN
    /\ memory_manager_ptr_[m] = NoManager
    /\ timestamp_server < MaxTime
    /\ timestamp_server' = timestamp_server + 1
    /\ managers_' = a.ms
    /\ pool_size_' = a.psize
    /\ memory_manager_ptr_' =
          [memory_manager_ptr_ EXCEPT ![m] =
              IF a.result # NoManager THEN a.result
              ELSE [id |-> id, create_size_ |-> size,
                    alloc_page_size_ |-> alloc_page_size]]
    /\ plast' = POp("allocate", m, size, alloc_page_size,
                    a.result # NoManager)
    /\ UNCHANGED nonpool

\* EncMMap::~EncMMap: memory_manager_pool.free(memory_manager_ptr_), under
\* mtx_; the object and its pointer are gone afterwards
PoolFree(m) ==
    LET f == pool_free(managers_, pool_size_, timestamp_server,
                       memory_manager_ptr_[m]) IN
    /\ memory_manager_ptr_[m] # NoManager
    /\ managers_' = f.ms
    /\ pool_size_' = f.psize
    /\ memory_manager_ptr_' = [memory_manager_ptr_ EXCEPT ![m] = NoManager]
    /\ plast' = POp("free", m, memory_manager_ptr_[m].create_size_,
                    memory_manager_ptr_[m].alloc_page_size_,
                    f.ms # managers_)
    /\ UNCHANGED <<timestamp_server, nonpool>>

NextPoolReg ==
    \/ \E m \in Mmaps, alloc_page_size \in PageSizes, size \in CreateSizes :
          PoolAllocate(m, alloc_page_size, size)
    \/ \E m \in Mmaps : PoolFree(m)

SpecPoolReg == Init /\ [][NextPoolReg]_vars

\* ------------------------------------------- Master Key rotation actions
\* a rotation request reaches the observer: rotate_master_key is called
RotCall ==
    /\ ~closing
    /\ rthr["rotator"].pc = "idle"
    /\ rmk.master_key_id_ <= MaxRotations
    /\ rthr' = [rthr EXCEPT !["rotator"].pc = "rot_lock"]
    /\ UNCHANGED <<mk_rotation_mutex_, rmk, rkeys, rpre, closing, nonrot>>

\* rotate_master_key: RecursiveLock mk_rotation_lock
RotLock ==
    LET l == recursive_lock(mk_rotation_mutex_, "rotator") IN
    /\ rthr["rotator"].pc = "rot_lock"
    /\ l.ok
    /\ mk_rotation_mutex_' = l.mtx
    /\ rthr' = [rthr EXCEPT !["rotator"].pc = "rot_generate"]
    /\ UNCHANGED <<rmk, rkeys, rpre, closing, nonrot>>

\* rotate_master_key from get_key(old_mk_name) to "if (new_mk.empty())":
\* the file key is unwrapped with the old Master Key and the next Master
\* Key is generated, with the byte b, unless it exists or cannot be created
RotGenerate(created, b) ==
    LET old_mk == rkeys[rmk.master_key_id_]
        next_mk == rkeys[rmk.master_key_id_ + 1]
        fails  == old_mk = 0 \/ next_mk # 0 \/ ~created
    IN
    /\ rthr["rotator"].pc = "rot_generate"
    /\ rkeys' = IF fails THEN rkeys
                ELSE [rkeys EXCEPT ![rmk.master_key_id_ + 1] = b]
    /\ rthr' = [rthr EXCEPT !["rotator"] =
          IF fails THEN [@ EXCEPT !.pc = "rot_unlock"]
          ELSE [@ EXCEPT !.pc = "rot_bump",
                         !.unencrypted_file_key =
                             decrypt_key(decode64(rmk.file_key_), KeyStr(old_mk)),
                         !.new_mk = b]]
    /\ UNCHANGED <<mk_rotation_mutex_, rmk, rpre, closing, nonrot>>

\* rotate_master_key: master_key_id_++
RotBump ==
    /\ rthr["rotator"].pc = "rot_bump"
    /\ rmk' = [rmk EXCEPT !.master_key_id_ = @ + 1]
    /\ rthr' = [rthr EXCEPT !["rotator"].pc = "rot_wrap"]
    /\ UNCHANGED <<mk_rotation_mutex_, rkeys, rpre, closing, nonrot>>

\* rotate_master_key: file_key_ = encode64(encrypt_key(...)), then the call
\* of write_preamble(false)
RotWrap ==
    /\ rthr["rotator"].pc = "rot_wrap"
    /\ rmk' = [rmk EXCEPT !.file_key_ =
                  encode64(encrypt_key(rthr["rotator"].unencrypted_file_key,
                                       KeyStr(rthr["rotator"].new_mk)))]
    /\ rthr' = [rthr EXCEPT !["rotator"].pc = "wp_lock",
                            !["rotator"].synced = FALSE]
    /\ UNCHANGED <<mk_rotation_mutex_, rkeys, rpre, closing, nonrot>>

\* seqno_reset (or the reset it ends in) on the writer thread calls
\* write_preamble(false); the destructor calls close_preamble, which calls
\* write_preamble(true), and is the last call of the thread
WriterCall(synced) ==
    /\ ~closing
    /\ rthr["writer"].pc = "idle"
    /\ rthr' = [rthr EXCEPT !["writer"].pc = "wp_lock",
                            !["writer"].synced = synced]
    /\ closing' = synced
    /\ UNCHANGED <<mk_rotation_mutex_, rmk, rkeys, rpre, nonrot>>

\* write_preamble: RecursiveLock mk_rotation_lock
WpLock(t) ==
    LET l == recursive_lock(mk_rotation_mutex_, t) IN
    /\ rthr[t].pc = "wp_lock"
    /\ l.ok
    /\ mk_rotation_mutex_' = l.mtx
    /\ rthr' = [rthr EXCEPT ![t].pc = "wp_id"]
    /\ UNCHANGED <<rmk, rkeys, rpre, closing, nonrot>>

\* write_preamble: os << PR_KEY_MK_ID << master_key_id_
WpId(t) ==
    /\ rthr[t].pc = "wp_id"
    /\ rthr' = [rthr EXCEPT ![t].pc = "wp_fk",
                            ![t].os_id = rmk.master_key_id_]
    /\ UNCHANGED <<mk_rotation_mutex_, rmk, rkeys, rpre, closing, nonrot>>

\* write_preamble: os << PR_KEY_FILE_KEY << file_key_
WpFileKey(t) ==
    /\ rthr[t].pc = "wp_fk"
    /\ rthr' = [rthr EXCEPT ![t].pc = "wp_copy",
                            ![t].os_fk = rmk.file_key_]
    /\ UNCHANGED <<mk_rotation_mutex_, rmk, rkeys, rpre, closing, nonrot>>

\* write_preamble: memset, memcpy and sync of the text, and the unlock on
\* return; rotate_master_key goes on to its own return
WpCopy(t) ==
    /\ rthr[t].pc = "wp_copy"
    /\ rpre' = [synced |-> rthr[t].synced, mk_id |-> rthr[t].os_id,
                file_key |-> rthr[t].os_fk]
    /\ mk_rotation_mutex_' = recursive_unlock(mk_rotation_mutex_)
    /\ rthr' = [rthr EXCEPT ![t] =
          IF t = "rotator" THEN [RotLocals("rot_unlock") EXCEPT !.synced = FALSE]
          ELSE RotLocals(IF rthr[t].synced THEN "closed" ELSE "idle")]
    /\ UNCHANGED <<rmk, rkeys, closing, nonrot>>

\* rotate_master_key returns: ~RecursiveLock
RotUnlock ==
    /\ rthr["rotator"].pc = "rot_unlock"
    /\ mk_rotation_mutex_' = recursive_unlock(mk_rotation_mutex_)
    /\ rthr' = [rthr EXCEPT !["rotator"] = RotLocals("idle")]
    /\ UNCHANGED <<rmk, rkeys, rpre, closing, nonrot>>

NextRot ==
    \/ RotCall
    \/ RotLock
    \/ \E created \in BOOLEAN, b \in KeyBytes : RotGenerate(created, b)
    \/ RotBump
    \/ RotWrap
    \/ RotUnlock
    \/ \E synced \in BOOLEAN : WriterCall(synced)
    \/ \E t \in RotThreads : WpLock(t) \/ WpId(t) \/ WpFileKey(t) \/ WpCopy(t)

SpecRot == Init /\ [][NextRot]_vars

\* ----------------------------------------------- SocketWatchdog actions
\* the expiry callback is running, or has returned and the timer thread
\* has not yet locked mtx_
InCallback == tmr.pc = "callback"

\* SocketWatchdog::start
WdStart ==
    /\ wdtor = "none"
    /\ active_' = TRUE
    /\ restart_' = TRUE
    /\ tmr' = notify_one(tmr)
    /\ wlast' = WdOp("start", InCallback)
    /\ UNCHANGED <<alive_, wdtor, nonwd>>

\* SocketWatchdog::stop
WdStop ==
    /\ wdtor = "none"
    /\ active_' = FALSE
    /\ tmr' = notify_one(tmr)
    /\ wlast' = WdOp("stop", InCallback)
    /\ UNCHANGED <<alive_, restart_, wdtor, nonwd>>

\* SocketWatchdogImpl::~SocketWatchdogImpl, under the mutex
WdDestroy ==
    /\ wdtor = "none"
    /\ alive_' = FALSE
    /\ active_' = TRUE
    /\ tmr' = notify_one(tmr)
    /\ wdtor' = "join"
    /\ wlast' = WdOp("destroy", InCallback)
    /\ UNCHANGED <<restart_, nonwd>>

\* t_.join() returns
WdJoin ==
    /\ wdtor = "join"
    /\ tmr.pc = "exited"
    /\ wdtor' = "joined"
    /\ UNCHANGED <<active_, alive_, restart_, tmr, wlast, nonwd>>

\* the thread function: "bool aliveSnapshot= alive_", read without the
\* mutex; a destructor that runs at the same time makes the value read
\* either one
WdBegin(seen) ==
    /\ tmr.pc = "begin"
    /\ seen = alive_ \/ wdtor # "none"
    /\ tmr' = [tmr EXCEPT !.pc = "outer", !.aliveSnapshot = seen]
    /\ UNCHANGED <<active_, alive_, restart_, wdtor, wlast, nonwd>>

\* "while (aliveSnapshot)", and lines 38-48 when active_ is set; with
\* active_ clear the thread waits on cv_
WdOuter ==
    /\ tmr.pc = "outer"
    /\ IF ~tmr.aliveSnapshot
       THEN /\ tmr' = [tmr EXCEPT !.pc = "exited"]
            /\ UNCHANGED restart_
       ELSE IF ~active_
       THEN /\ tmr' = [tmr EXCEPT !.pc = "wait"]
            /\ UNCHANGED restart_
       ELSE /\ tmr' = collect(tmr, active_, alive_)
            /\ restart_' = FALSE
    /\ UNCHANGED <<active_, alive_, wdtor, wlast, nonwd>>

\* cv_.wait may return without a notification
WdSpurious ==
    /\ tmr.pc = "wait"
    /\ tmr' = [tmr EXCEPT !.pc = "woken"]
    /\ UNCHANGED <<active_, alive_, restart_, wdtor, wlast, nonwd>>

\* cv_.wait has returned: "while (!active_)" once more, lines 39-48
WdWoken ==
    /\ tmr.pc = "woken"
    /\ IF ~active_
       THEN /\ tmr' = [tmr EXCEPT !.pc = "wait"]
            /\ UNCHANGED restart_
       ELSE /\ tmr' = collect(tmr, active_, alive_)
            /\ restart_' = FALSE
    /\ UNCHANGED <<active_, alive_, wdtor, wlast, nonwd>>

\* the timer loop, lines 51-57 and 64-76: it is left, or the callback is
\* called, or 10 ms are waited for, the flags collected and the counter
\* counted down
WdTimer ==
    /\ tmr.pc = "timer"
    /\ IF ~(tmr.activeSnapshot /\ tmr.aliveSnapshot /\ ~tmr.restartSnapshot)
       THEN tmr' = [tmr EXCEPT !.pc = "outer"]
       ELSE IF tmr.counter = 0
       THEN tmr' = [tmr EXCEPT !.pc = "callback"]
       ELSE tmr' = [tmr EXCEPT !.activeSnapshot = active_,
                               !.aliveSnapshot = alive_,
                               !.restartSnapshot = restart_,
                               !.counter = @ - 1]
    /\ UNCHANGED <<active_, alive_, restart_, wdtor, wlast, nonwd>>

\* lines 57-61: (*eventCbFn_)() returns, and under the mutex
\* "active_= false; break"
WdExpired ==
    /\ tmr.pc = "callback"
    /\ active_' = FALSE
    /\ tmr' = [tmr EXCEPT !.pc = "outer"]
    /\ UNCHANGED <<alive_, restart_, wdtor, wlast, nonwd>>

TimerStep ==
    \/ \E seen \in BOOLEAN : WdBegin(seen)
    \/ WdOuter
    \/ WdWoken
    \/ WdTimer
    \/ WdExpired

NextWd ==
    \/ WdStart
    \/ WdStop
    \/ WdDestroy
    \/ WdJoin
    \/ WdSpurious
    \/ TimerStep

\* the timer thread and the join go on running
SpecWd ==
    /\ Init
    /\ [][NextWd]_vars
    /\ WF_vars(TimerStep)
    /\ WF_vars(WdJoin)

NoUB == ~ub

\* ------------------------------------------------------------ layout
\* one past the last byte of the buffer at p
BufEnd(p) == p + mem[p].size

Disjoint(p, q) == BufEnd(p) <= q \/ BufEnd(q) <= p

\* the buffer at p lies in the live range [first_, next_) of the ring
InLive(p) ==
    IF first <= next THEN first <= p /\ BufEnd(p) <= next
    ELSE \/ p >= first /\ BufEnd(p) <= end_ - size_trail
         \/ BufEnd(p) <= next

\* ------------------------------------------------------------ C1
\* C1: every buffer that malloc (or realloc) returned and that has not been
\* freed is a whole buffer inside [start, end) with the RELEASED flag clear,
\* overlaps no other such buffer, and lies in the live range: an allocation
\* never lands on it and the slot finder never moves first_ past it.
C1_LiveBuffersDisjoint ==
    \A p \in held :
        /\ ~IsGarbage(mem[p])
        /\ mem[p].size > BHSize
        /\ ~BH_is_released(mem[p])
        /\ start_ <= p
        /\ BufEnd(p) <= end_
        /\ InLive(p)
        /\ \A q \in held \ {p} : Disjoint(p, q)

\* malloc rolled over to start_ while an older buffer is still in use
C1_Witness ==
    /\ last.op = "malloc"
    /\ last.ret = start_
    /\ next < first
    /\ Cardinality(held) >= 2

\* ------------------------------------------------------------ C2
\* C2: a seqno release up to s erases from the index and discards only
\* buffers with seqno <= s: every entry above s is still there, points to
\* the same buffer, and that buffer's header (seqno_g included) is as before;
\* the only headers that change belong to entries <= s that were erased.
C2_ReleaseKeepsHigher ==
    [][\A s \in Seqnos :
         (last'.op = "release" /\ last'.seqno = s) =>
            /\ \A t \in Seqnos : t > s =>
                 /\ seqno2ptr'[t] = seqno2ptr[t]
                 /\ seqno2ptr[t] # Null =>
                        mem'[seqno2ptr[t]] = mem[seqno2ptr[t]]
            /\ \A p \in Offsets : mem'[p] # mem[p] =>
                 \E t \in Seqnos :
                    t <= s /\ seqno2ptr[t] = p /\ seqno2ptr'[t] = Null]_vars

\* a release erased an entry and left a released buffer with a higher seqno
C2_Witness ==
    /\ last.op = "release"
    /\ last.n >= 1
    /\ \E t \in Seqnos :
          /\ t > last.seqno
          /\ seqno2ptr[t] # Null
          /\ BH_is_released(mem[seqno2ptr[t]])
          /\ mem[seqno2ptr[t]].seqno_g = t

\* ------------------------------------------------------------ C3
\* index entries whose buffer is not released
Pinned == {t \in IndexSet(seqno2ptr) : ~BH_is_released(mem[seqno2ptr[t]])}

\* C3: discard_seqnos (called by seqno release and by the slot finder) goes
\* through the index in increasing seqno order and stops at the first entry
\* whose buffer is not released: that entry and every higher one stay as
\* they are, what is erased is a prefix of the index (no hole), and a release
\* whose range holds an unreleased buffer returns false.
C3_StopsAtPinned ==
    [][last'.op \in {"release", "malloc", "realloc"} =>
         LET pre  == IndexSet(seqno2ptr)
             post == IndexSet(seqno2ptr')
         IN  /\ post \subseteq pre
             /\ \A t \in pre : (\E u \in Pinned : u <= t) =>
                    seqno2ptr'[t] = seqno2ptr[t]
             /\ \A t \in pre \ post : \A u \in pre : u < t => u \notin post
             /\ (last'.op = "release" /\ \E u \in Pinned : u <= last'.seqno)
                    => last'.ret = 0]_vars

\* a release erased seqno 1, stopped at an unreleased buffer and left the
\* released buffer behind it in the index
C3_Witness ==
    /\ last.op = "release"
    /\ last.ret = 0
    /\ last.n >= 1
    /\ \E u \in Seqnos, t \in Seqnos :
          /\ u < t /\ t <= last.seqno
          /\ seqno2ptr[u] # Null /\ seqno2ptr[t] # Null
          /\ ~BH_is_released(mem[seqno2ptr[u]])
          /\ BH_is_released(mem[seqno2ptr[t]])

Pending ==
    {p \in Offsets : /\ ~IsGarbage(mem[p])
                     /\ mem[p].size > 0
                     /\ InLive(p)
                     /\ mem[p].seqno_g > 0
                     /\ BH_is_released(mem[p])}

Accounted == size_free + size_used + SumSizes(mem, Pending)

\* the counters and the index are as the operations keep them when none has
\* gone wrong: size_used is the bytes of the buffers in use (a realloc that
\* fails lowers it) and every ordered buffer of the live range is in the
\* index (seqno_reset can leave one out)
Unskewed ==
    /\ size_used = SumSizes(mem, held)
    /\ \A p \in Offsets :
          (/\ ~IsGarbage(mem[p])
           /\ mem[p].size > 0
           /\ InLive(p)
           /\ mem[p].seqno_g > 0) => seqno2ptr[mem[p].seqno_g] = p

C5_OrderedIsIndexed ==
    \A p \in Offsets :
        (/\ ~IsGarbage(mem[p])
         /\ mem[p].size > 0
         /\ InLive(p)
         /\ mem[p].seqno_g > 0) => seqno2ptr[mem[p].seqno_g] = p

\* ------------------------------------------------------------ C6
\* the step changes or erases the index entry of s
EntryChanged(s) == seqno2ptr[s] # Null /\ seqno2ptr'[s] # seqno2ptr[s]

\* C6 as stated: among malloc, realloc, free, seqno assignment and seqno
\* release, only a seqno release up to s or higher takes the entry of s out
\* of the index.
C6_OnlyReleaseErases ==
    [][last'.op \in {"malloc", "realloc", "free", "assign", "release"} =>
         \A s \in Seqnos :
            EntryChanged(s) => last'.op = "release" /\ last'.seqno >= s]_vars

\* C6, amended: the index entry of s points to the buffer ordered with s
\* until it is erased, and it is erased only once the buffer is released:
\* by a seqno release up to s or higher, or by malloc or realloc reclaiming
\* space at first_; free and seqno assignment leave every entry alone.
\* seqno_reset and a restart (reset or recovery) set the index up anew.
C6_ErasedOnlyWhenReleased ==
    [][\A s \in Seqnos :
         EntryChanged(s) =>
            \/ /\ last'.op = "release" /\ last'.seqno >= s
               /\ seqno2ptr'[s] = Null
               /\ BH_is_released(mem[seqno2ptr[s]])
            \/ /\ last'.op \in {"malloc", "realloc"}
               /\ seqno2ptr'[s] = Null
               /\ BH_is_released(mem[seqno2ptr[s]])
            \/ last'.op \in {"seqno_reset", "restart"}]_vars

\* malloc returned a buffer after it erased an index entry on its way
C6_Witness ==
    /\ last.op = "malloc"
    /\ last.ret # Null
    /\ last.n >= 1
    /\ IndexSet(seqno2ptr) # {}

\* ------------------------------------------------------------ C7
\* C7: malloc and realloc of more than size_cache / 2 return null and leave
\* first_, next_, size_trail_, size_free_, size_used_, every header and the
\* index as they were.
C7_OversizeRejected ==
    [][(last'.op \in {"malloc", "realloc"} /\ last'.size > size_cache_ \div 2)
         => /\ last'.ret = Null
            /\ UNCHANGED <<mem, first, next, size_trail, size_free,
                           size_used, seqno2ptr, held>>]_vars

\* an oversize malloc was turned down while a released ordered buffer sat
\* at first_, ready to be discarded
C7_Witness ==
    /\ last.op = "malloc"
    /\ last.size > size_cache_ \div 2
    /\ last.ret = Null
    /\ first # next
    /\ BH_is_released(mem[first])
    /\ mem[first].seqno_g > 0

\* ------------------------------------------------------------ C8
\* C8: when every allocated buffer has been freed and no ordered buffer is
\* left in the index, malloc of any size up to size_cache / 2 succeeds, and
\* the buffer is placed at start_ when the tail after next_ cannot take the
\* buffer and the header that terminates it.
C8_MallocAfterAllFreed ==
    [][(/\ held = {}
        /\ IndexSet(seqno2ptr) = {}
        /\ last'.op = "malloc"
        /\ last'.size <= size_cache_ \div 2)
         => /\ last'.ret # Null
            /\ end_ - next < last'.size + BHSize => last'.ret = start_]_vars

\* ------------------------------------------------------------ C9
\* C9: first_ and next_ are inside [start, end), and the ring is either one
\* segment (first_ <= next_, no trail) or two (next_ < first_, with a trail
\* of at least a header).
C9_Layout ==
    /\ start_ <= first /\ first < end_
    /\ start_ <= next /\ next < end_
    /\ \/ first <= next /\ size_trail = 0
       \/ next < first /\ size_trail >= BHSize

\* ------------------------------------------------------------ C10
\* C10: the header at next_ is a clear marker that fits before end_, and it
\* lies on no buffer in use and, in a two-segment ring, below first_.
C10_ClearMarkerAtNext ==
    /\ BH_is_clear(mem[next])
    /\ next + BHSize <= end_
    /\ next < first => first - next >= BHSize
    /\ \A p \in held : BufEnd(p) <= next \/ next + BHSize <= p

\* malloc filled the gap of a two-segment ring up to the last header's
\* worth of bytes below first_, where a buffer is still in use
C10_Witness ==
    /\ last.op = "malloc"
    /\ last.ret # Null
    /\ next < first
    /\ first - next = BHSize
    /\ first \in held

\* ------------------------------------------------------------ C11
\* C11: after a recovery that did not end in a reset, the index is the
\* longest gapless run of seqnos that ends at the highest seqno the scan
\* found: every seqno from front to back has its entry and the entry's
\* buffer carries that seqno, the seqno below front was not found, and every
\* buffer found with a seqno below front is out of the index and emptied
\* (or, when next_ was trimmed down to it, under the clear marker at next_).
C11_RecoverGapless ==
    [][(last'.op = "restart" /\ IndexSet(seqno2ptr') # {} /\ ~ub') =>
       \A clean \in BOOLEAN : Restart(clean, TRUE) =>
            LET sc    == Scanned(clean)
                found == IndexSet(sc.rb.seqno2ptr)
                post  == IndexSet(seqno2ptr')
                front == SetMin(post)
                back  == SetMax(post)
            IN  /\ back = SetMax(found)
                /\ \A s \in front .. back :
                      /\ s \in post
                      /\ mem'[seqno2ptr'[s]].seqno_g = s
                /\ (front - 1) \notin found
                /\ \A s \in found : s < front =>
                      /\ seqno2ptr'[s] = Null
                      /\ \/ mem'[sc.rb.seqno2ptr[s]].seqno_g = SEQNO_ILL
                         \/ sc.rb.seqno2ptr[s] = next']_vars

\* a recovery found seqnos on both sides of a hole, dropped the lower ones
\* and kept the run above the hole
C11_Witness ==
    /\ last.op = "restart"
    /\ last.ret = 1
    /\ last.n >= 1
    /\ IndexSet(seqno2ptr) # {}

\* ------------------------------------------------------------ C12
\* the state reset() leaves, in the next state of a step
FullReset ==
    /\ first' = start_
    /\ next' = start_
    /\ size_free' = size_cache_
    /\ size_used' = 0
    /\ size_trail' = 0
    /\ BH_is_clear(mem'[start_])
    /\ seqno2ptr' = EmptyIndex
    /\ ~ub'

C13_ReallocKeepsPayload ==
    [][(last'.op = "realloc" /\ last'.ret # Null) =>
         LET p == last'.ptr
             r == last'.ret
             k == last'.size
         IN  /\ ~IsGarbage(mem'[r])
             /\ mem'[r].data = mem[p].data
             /\ mem[p].data \in DataVals
             /\ r \in held'
             /\ ~BH_is_released(mem'[r])
             /\ k <= mem[p].size =>
                   /\ r = p
                   /\ UNCHANGED <<mem, first, next, size_trail, size_free,
                                  size_used, seqno2ptr, held>>
             /\ (k > mem[p].size /\ r = p) =>
                   /\ p + mem[p].size = next
                   /\ mem'[p].size = k
                   /\ next' = p + k
             /\ r # p =>
                   /\ mem'[r].size = k
                   /\ p \notin held']_vars

\* realloc moved the payload to a new buffer
C13_Witness ==
    /\ last.op = "realloc"
    /\ last.ret # Null
    /\ last.ret # last.ptr
    /\ mem[last.ret].data \in DataVals
    /\ mem[last.ret].size = last.size

\* ------------------------------------------------------------ C14
\* C14: when realloc(p, k) returns null, p is still allocated and not
\* released, its header and payload are as before, next_ is where it was,
\* with a clear marker, and size_used_ has the value it had before the call.
C14_FailedReallocKeeps ==
    [][(last'.op = "realloc" /\ last'.ret = Null) =>
         LET p == last'.ptr
         IN  /\ p \in held'
             /\ mem'[p] = mem[p]
             /\ ~BH_is_released(mem'[p])
             /\ next' = next
             /\ BH_is_clear(mem'[next'])
             /\ size_used' = size_used]_vars

\* ------------------------------------------------------------ C15
\* C15: free(bh) takes exactly bh.size from size_used_.  An unordered buffer
\* (seqno_g = NONE) becomes empty (seqno_g = ILL) and size_free_ grows by
\* bh.size at once.  An ordered buffer (seqno_g > 0) keeps its seqno and its
\* index entry, size_free_ is unchanged, and the buffer stays in the ring
\* (first_ and next_ do not move) until it is discarded later.
C15_FreeAccounting ==
    [][last'.op = "free" =>
         LET p  == last'.ptr
             bh == mem[p]
         IN  /\ size_used' = size_used - bh.size
             /\ BH_is_released(mem'[p])
             /\ mem'[p].size = bh.size
             /\ first' = first /\ next' = next
             /\ seqno2ptr' = seqno2ptr
             /\ bh.seqno_g = SEQNO_NONE =>
                    /\ mem'[p].seqno_g = SEQNO_ILL
                    /\ size_free' = size_free + bh.size
             /\ bh.seqno_g > 0 =>
                    /\ mem'[p].seqno_g = bh.seqno_g
                    /\ seqno2ptr'[bh.seqno_g] = p
                    /\ size_free' = size_free]_vars

\* an ordered buffer has been freed: it is released, still indexed
C15_Witness ==
    /\ last.op = "free"
    /\ last.seqno > 0
    /\ mem[last.ptr].seqno_g = last.seqno
    /\ seqno2ptr[last.seqno] = last.ptr
    /\ BH_is_released(mem[last.ptr])

\* ------------------------------------------------------------ C16
\* C16: whenever the EncMMap lock is free, a virtual page has an entry in
\* vpage2ppage_ if and only if its entry in vpage2protection_ is PROT_READ
\* or PROT_READ|PROT_WRITE; every other page is recorded as PROT_NONE.
C16_MappedIffProtected ==
    \A v \in VPages :
       /\ enc.vpage2protection[v] \in {PROT_NONE, PROT_READ, PROT_RW}
       /\ enc.vpage2ppage[v] # NoPage
            <=> enc.vpage2protection[v] \in {PROT_READ, PROT_RW}

\* a fault has evicted pages, mapped the page asked for and read ahead
C16_Witness ==
    /\ elast.op = "fault"
    /\ elast.n >= 1
    /\ enc.read_ahead_cnt > 0
    /\ Cardinality(Mapped(enc)) = 2
    /\ \E v \in VPages : enc.vpage2protection[v] = PROT_NONE

\* ------------------------------------------------------------ C17
\* C17: whenever the EncMMap lock is free, each of the N physical pages of
\* the pool is either on the free stack, once, or mapped to one virtual
\* page: never both, never to two virtual pages, never twice on the stack;
\* |free| + |mapped| = N.
C17_PageConservation ==
    LET on_stack == {enc.free_pages[i] : i \in DOMAIN enc.free_pages}
        in_use   == {enc.vpage2ppage[v] : v \in Mapped(enc)}
    IN  /\ Cardinality(on_stack) = Len(enc.free_pages)
        /\ Cardinality(in_use) = Cardinality(Mapped(enc))
        /\ on_stack \cap in_use = {}
        /\ on_stack \cup in_use = 0 .. (enc.alloc_pages_cnt - 1)
        /\ Len(enc.free_pages) + Cardinality(Mapped(enc))
             = enc.alloc_pages_cnt

\* a fault has found the pool empty, evicted two pages and mapped one
C17_Witness ==
    /\ elast = EOp("fault", 2)
    /\ Len(enc.free_pages) = 1
    /\ Cardinality(Mapped(enc)) = 1

\* ------------------------------------------------------------ C19
\* what a fault on the page of unit u would decrypt from the file
FromFile(m, u) ==
    IF u < encryption_start_offset_ THEN m.raw[u]
    ELSE Aes_ctr_decrypt(m.key, u, m.raw[u])

\* what the client reads at unit u, after the fault if the page is not
\* mapped
ClientView(m, u) ==
    IF m.vpage2ppage[u \div page_size_] # NoPage THEN vread(m, u)
    ELSE FromFile(m, u)

\* C19: no write is lost under one key.  The client reads its latest write
\* at every unit, whether the page has stayed mapped or has been evicted
\* and is faulted in again; when sync() has returned, the file decrypts to
\* the latest write at every unit; the bytes below
\* encryption_start_offset_ are on file as they are in memory.
C19_NoLostWrites ==
    /\ \A u \in Units :
          latest[u] # Unknown => ClientView(enc, u) = Plain(latest[u])
    /\ elast.op = "sync" =>
          \A u \in Units :
             latest[u] # Unknown => FromFile(enc, u) = Plain(latest[u])
    /\ \A u \in Units :
          (u < encryption_start_offset_ /\ latest[u] # Unknown)
             => (elast.op = "sync" => enc.raw[u] = Plain(latest[u]))

\* sync() has flushed two pages: the header and encrypted bytes are on file
C19_Witness ==
    /\ elast = EOp("sync", 2)
    /\ latest[0] \in Vals
    /\ enc.raw[0] = Plain(latest[0])
    /\ \E u \in Units :
          /\ u >= encryption_start_offset_
          /\ latest[u] \in Vals
          /\ enc.raw[u] = Aes_ctr_encrypt(enc.key, u, Plain(latest[u]))

\* ------------------------------------------------------------ C20
\* C20: set_key(new_key) leaves no virtual page mapped: vpage2ppage_ is
\* empty, every protection entry is PROT_NONE, the free stack of the pool
\* holds all N pages, and the file is as it was: dirty pages are dropped,
\* not flushed.  At any time, the pages that are mapped were decrypted with
\* the current key.
C20_SetKeyDrops ==
    [][/\ elast'.op = "set_key" =>
             /\ Mapped(enc') = {}
             /\ \A v \in VPages : enc'.vpage2protection[v] = PROT_NONE
             /\ enc'.free_pages = my_pages(enc'.alloc_pages_cnt)
             /\ enc'.raw = enc.raw
       /\ \A v \in Mapped(enc') :
             enc'.pkey[enc'.vpage2ppage[v]] = enc'.key]_vars

\* set_key has replaced the key while two pages were dirty
C20_Witness ==
    /\ elast = EOp("set_key", 2)
    /\ enc.key = 2
    /\ Mapped(enc) = {}
    /\ \E u \in Units : latest[u] = Unknown /\ u >= encryption_start_offset_

\* ------------------------------------------------------------ C18
\* C18 as stated: with a pool of two physical pages, servicing a fault of
\* an access to two adjacent virtual pages does not evict the other page
\* of the access.
C18_SecondFaultKeepsFirst ==
    [][(acc # NoAccess /\ acc' # NoAccess /\ acc'.faults # acc.faults)
          => (Mapped(enc) \cap AccPages(acc)) \subseteq Mapped(enc')]_vars

\* C18: with a pool of two physical pages and one accessing thread, an
\* access to two adjacent virtual pages completes: the eviction pass frees
\* a page whenever the pool is empty, so that the alloc after it never
\* fails; a fault of the access evicts the other page of the access at most
\* once, and the access takes at most 7 faults.
C18_StraddleCompletes ==
    /\ (acc # NoAccess) ~> (acc = NoAccess)
    /\ [](~enc.abort /\ acc.lost <= 1 /\ acc.faults <= 7)

\* an access has lost its first page to the fault of the second, has
\* faulted it in again and is about to complete
C18_Witness ==
    /\ acc # NoAccess
    /\ acc.lost = 1
    /\ acc.faults >= 3
    /\ elast = NoStep
    /\ \A v \in AccPages(acc) : Accessible(enc, v, acc.w)

\* ------------------------------------------------------------ C21
\* C21: the bodies of the fault handler, of both sync and of set_key never
\* overlap: at most one thread is between lock and unlock, and the flag is
\* set while one is; a fault handler that finds the flag set returns and
\* leaves the flag and every other thread as they are; and, the other
\* threads making finitely many calls, the access that was not served is
\* served by a later fault.
C21_Serialized ==
    /\ [](Cardinality(InCritical) <= 1 /\ (InCritical # {} => lock_))
    /\ [][\A t \in Threads :
            (thr[t].pc = "call" /\ thr'[t].pc = "pending") =>
               /\ lock_ /\ lock_'
               /\ \A u \in Threads \ {t} : thr'[u] = thr[u]
               /\ InCritical' = InCritical /\ InCritical # {}]_vars
    /\ \A t \in Threads : (thr[t].pc = "pending") ~> (thr[t].pc = "idle")

\* a fault handler has returned on the taken flag while another thread is in
\* the middle of set_key
C21_Witness ==
    \E t \in Threads, u \in Threads :
        /\ thr[t].pc = "pending"
        /\ thr[u].pc = "work" /\ thr[u].op = "set_key"

\* ------------------------------------------------------------ C22
\* C22: flush() returns only when the worker has completed every action
\* that was scheduled or being executed when flush() was entered, whatever
\* report_last_committed and release_seqno callers do meanwhile (no reset()
\* and no destructor since the entry).
C22_FlushDrains ==
    [][\A c \in Flushers :
          (/\ fl[c].pc = "woken" /\ fl'[c].pc = "out"
           /\ ~fl[c].reset /\ dtor = "none") => fl[c].owed = {}]_vars

\* a flush() has returned that found one action scheduled and one being
\* executed
C22_Witness ==
    /\ \E c \in Flushers : slast = SOp("flush_return", c, 2)
    /\ nreset = 0
    /\ dtor = "none"

\* ------------------------------------------------------------ C23
\* C23: when set_last_applied returns a negative value the report of the
\* last committed seqno stays scheduled (or is scheduled again), so that
\* the worker hands the seqno over once more without a new
\* report_last_committed call.
C23_FailureIsRetried ==
    [][(slast'.op = "set_last_applied" /\ slast'.ret < 0)
          => "A_LAST_COMMITTED" \in data_'.act_]_vars

\* ------------------------------------------------------------ C24
\* C24: once the destructor has set A_EXIT and signalled, the worker starts
\* no set_last_applied and no seqno_release beyond the data it had taken,
\* it leaves its loop and the join completes, whatever was scheduled at
\* that moment; every thread that was in flush() returns, unless another
\* thread enters flush() after the worker has taken A_EXIT.
C24_ShutdownTerminates ==
    /\ [][(dtor # "none" /\ wk'.pc \in {"lc", "rs"})
             => wk.pc \in {"lc", "rs"}]_vars
    /\ (dtor = "join") ~> (/\ dtor = "joined"
                           /\ wk.pc = "exited"
                           /\ \/ \A c \in Flushers : fl[c].pc = "out"
                              \/ \E c \in Flushers : fl[c].late)

\* the destructor came while a report was scheduled and a thread waited
\* in flush(): the thread has returned after the worker left its loop, the
\* report was never handed over
C24_Witness ==
    /\ dtor = "join"
    /\ wk.pc = "exited"
    /\ \E c \in Flushers : slast.op = "flush_return" /\ slast.seqno = c
    /\ data_.last_committed_ > 0
    /\ handed = NotHanded
    /\ nreset = 0

\* ------------------------------------------------------------ C25
\* the worker passes wk.data.last_committed_ to set_last_applied
HandsOver == wk.pc = "lc" /\ wk'.pc # "lc"

\* C25 as stated: without a reset() in between, the seqnos passed to
\* set_last_applied are strictly increasing.
C25_HandOffsIncrease ==
    [][HandsOver => wk.data.last_committed_ > handed.seqno]_vars

\* C25: report_last_committed coalesces.  Without a reset() the stored
\* seqno only grows; a report is scheduled only by a step that raises the
\* stored seqno, and a report with a seqno that is not greater changes
\* nothing, otherwise the stored seqno becomes the reported one; the worker
\* takes the stored seqno and the report with it, so that one hand-off
\* serves every report made before; and the seqnos handed over from data
\* taken since the last reset() are strictly increasing (data taken before
\* a reset() are handed over after it with their old seqno).
C25_Coalesces ==
    /\ [][nreset' = nreset
             => data_'.last_committed_ >= data_.last_committed_]_vars
    /\ [][("A_LAST_COMMITTED" \in data_'.act_ \ data_.act_)
             => data_'.last_committed_ > data_.last_committed_]_vars
    /\ [](\A seqno \in GcsSeqnos, report \in BOOLEAN :
            LET r == report_last_committed(data_, wk, seqno, report) IN
            IF seqno <= data_.last_committed_
            THEN r = [d |-> data_, w |-> wk]
            ELSE r.d.last_committed_ = seqno)
    /\ [][(wk.pc # "lc" /\ wk'.pc = "lc")
             => /\ wk'.data.last_committed_ = data_.last_committed_
                /\ "A_LAST_COMMITTED" \notin data_'.act_]_vars
    /\ [][(HandsOver /\ ~wk.reset)
             => wk.data.last_committed_ > handed.taken]_vars

\* the worker has handed over 1 and is about to hand over 2, no reset()
C25_Witness ==
    /\ wk.pc = "lc"
    /\ ~wk.reset
    /\ wk.data.last_committed_ = 2
    /\ handed.taken = 1
    /\ nreset = 0

\* ------------------------------------------------------------ C26
\* the Master Key that the members r name, as the keyring kr has it
MasterKeyOf(kr, r) ==
    get_key(kr, create_master_key_name(r.const_mk_id_, r.master_key_uuid_,
                                       r.master_key_id_))

\* the preamble names a Master Key that open_preamble will use: the
\* encryption fields are sound, the key is in the keyring and the key with
\* the next id is not
Openable ==
    /\ preamble.enc_encrypted
    /\ preamble.mk_id # 0
    /\ preamble.mk_uuid # GU_UUID_NIL
    /\ preamble.enc_crc = enc_crc_of(TRUE, preamble.mk_id, preamble.const_id,
                                     preamble.mk_uuid, preamble.file_key)
    /\ get_key(keyring, create_master_key_name(preamble.const_id,
           preamble.mk_uuid, preamble.mk_id)) # EmptyStr
    /\ get_key(keyring, create_master_key_name(preamble.const_id,
           preamble.mk_uuid, preamble.mk_id + 1)) = EmptyStr

\* C26: a rotate_master_key that returns false adds 1 to master_key_id_,
\* keeps the const id and the uuid of the Master Key, leaves the file key
\* as it is (the wrapped key decrypts under the new Master Key to what the
\* old one decrypted to under the old Master Key, the key the mmap has) and
\* writes the preamble unsynced with the new fields; and an open of an
\* encrypted file whose preamble names a Master Key that is there, the next
\* one being absent, gives the mmap the key the pages were written with and
\* resets nothing.
C26_RotateKeepsFileKey ==
    /\ [][(mlast'.op = "rotate" /\ ~mlast'.ret)
            => /\ rbenc'.master_key_id_ = rbenc.master_key_id_ + 1
               /\ rbenc'.const_mk_id_ = rbenc.const_mk_id_
               /\ rbenc'.master_key_uuid_ = rbenc.master_key_uuid_
               /\ rot.new_mk # EmptyStr
               /\ decrypt_key(decode64(rbenc'.file_key_), rot.new_mk)
                    = decrypt_key(decode64(rbenc.file_key_), rot.old_mk)
               /\ decrypt_key(decode64(rbenc'.file_key_), rot.new_mk)
                    = mmap_key
               /\ mmap_key' = mmap_key /\ data_key' = data_key
               /\ preamble' = write_preamble(rbenc', FALSE)
               /\ ~preamble'.synced]_vars
    /\ [][(mlast'.op = "open" /\ Openable /\ rbenc'.encrypt_)
            => /\ ~mlast'.ret /\ ~mlast'.reset
               /\ mmap_key' = data_key
               /\ data_key' = data_key
               /\ rbenc'.master_key_id_ = preamble.mk_id
               /\ rbenc'.master_key_uuid_ = preamble.mk_uuid]_vars
    /\ [](mpc # "closed" /\ rbenc.encrypt_ => mmap_key = data_key)

\* the file has been opened again after a rotation, without a reset, when
\* the keyring had lost the Master Key of before the rotation
C26_Witness ==
    /\ mlast = MOp("open", FALSE, "none", FALSE)
    /\ rbenc.encrypt_
    /\ rbenc.master_key_id_ = 2
    /\ MasterKeyOf(keyring, [rbenc EXCEPT !.master_key_id_ = 1]) = EmptyStr
    /\ MasterKeyOf(keyring, rbenc) # EmptyStr

\* ------------------------------------------------------------ C27
\* C27: a rotate_master_key that returns true (the Master Key in use is not
\* in the keyring, the key with the next id is there already, create_key
\* fails or the new key reads back empty) changes nothing of the ring
\* buffer: members, preamble, key of the mmap.
C27_FailedRotateChangesNothing ==
    [][(mlast'.op = "rotate" /\ mlast'.ret)
          => /\ rbenc' = rbenc
             /\ preamble' = preamble
             /\ mmap_key' = mmap_key /\ data_key' = data_key
             /\ mpc' = "open"]_vars

\* a rotation has failed because create_key failed
C27_Witness ==
    /\ mlast = MOp("rotate", TRUE, "create", FALSE)
    /\ rbenc.master_key_id_ = 1
    /\ preamble.mk_id = 1

\* ------------------------------------------------------------ C28
\* the Master Key that the preamble names cannot be used: it is not in the
\* keyring, or the key with the next id is there too
Unusable ==
    /\ preamble.enc_encrypted
    /\ preamble.mk_id # 0
    /\ preamble.mk_uuid # GU_UUID_NIL
    /\ \/ get_key(keyring, create_master_key_name(preamble.const_id,
              preamble.mk_uuid, preamble.mk_id)) = EmptyStr
       \/ get_key(keyring, create_master_key_name(preamble.const_id,
              preamble.mk_uuid, preamble.mk_id + 1)) # EmptyStr

\* C28: an open of an encrypted ring buffer whose preamble names a Master
\* Key that is missing, or whose successor is in the keyring, recovers
\* nothing: either the constructor throws and nothing is written, or a
\* Master Key with a uuid that was in use nowhere and id 1 is made, a new
\* file key is wrapped with it and given to the mmap, and the ring is reset.
C28_NoRecoveryWithoutKey ==
    [][(mlast'.op = "open" /\ Unusable /\ rbenc'.encrypt_)
          => \/ /\ mlast'.ret
                /\ UNCHANGED <<preamble, mpc, rbenc, data_key>>
             \/ /\ ~mlast'.ret
                /\ mlast'.reset
                /\ rbenc'.master_key_id_ = 1
                /\ rbenc'.master_key_uuid_ \in FreshUuids(keyring, preamble)
                /\ MasterKeyOf(keyring, rbenc') = EmptyStr
                /\ MasterKeyOf(keyring', rbenc') # EmptyStr
                /\ rbenc'.file_key_ =
                      encode64(encrypt_key(mmap_key',
                                           MasterKeyOf(keyring', rbenc')))
                /\ data_key' = mmap_key'
                /\ preamble' = write_preamble(rbenc', FALSE)]_vars

\* an open has found the key of an interrupted rotation and has reset
C28_Witness ==
    /\ mlast = MOp("open", FALSE, "next", TRUE)
    /\ rbenc.master_key_id_ = 1
    /\ mpc = "open"

\* ------------------------------------------------------------ C29
\* C29: allocate returns a new manager or one of the registry whose
\* creation size and page size are not less than asked, and takes it out
\* of the registry; no manager is in two EncMMaps, in the registry twice,
\* or in an EncMMap and in the registry.
C29_OneOwner ==
    /\ [](/\ HeldIds \cap OwnedIds = {}
          /\ \A m1, m2 \in Mmaps :
                (m1 # m2 /\ memory_manager_ptr_[m1] # NoManager)
                   => memory_manager_ptr_[m1].id # memory_manager_ptr_[m2].id
          /\ \A i, j \in 1 .. Len(managers_) :
                i # j => managers_[i].manager_.id # managers_[j].manager_.id)
    /\ [][plast'.op = "allocate"
            => LET got == memory_manager_ptr_'[plast'.m] IN
               /\ got # NoManager
               /\ got.create_size_ >= plast'.size
               /\ got.alloc_page_size_ >= plast'.page_size
               /\ IF plast'.reused
                  THEN /\ got.id \in HeldIds
                       /\ got.id \notin {managers_'[i].manager_.id :
                                            i \in 1 .. Len(managers_')}
                  ELSE /\ got.id \notin HeldIds \cup OwnedIds
                       /\ got.create_size_ = plast'.size
                       /\ got.alloc_page_size_ = plast'.page_size]_vars

\* an allocate has returned a manager of the registry that is greater than
\* asked, while another EncMMap has its own manager
C29_Witness ==
    /\ plast.op = "allocate"
    /\ plast.reused
    /\ memory_manager_ptr_[plast.m].create_size_ > plast.size
    /\ \E m \in Mmaps : m # plast.m /\ memory_manager_ptr_[m] # NoManager

\* ------------------------------------------------------------ C30
\* C30: the registry holds at most MANAGERS_POOL_SIZE managers and
\* pool_size_ is the number of managers it holds.
C30_CountIsHeld ==
    /\ Len(managers_) <= MANAGERS_POOL_SIZE
    /\ pool_size_ = Len(managers_)

\* ------------------------------------------------------------ C31
\* malloc(size) that hands size to get_new_buffer
FinderCalled(size) ==
    size <= size_cache_ \div 2 /\ ULe(size, size_cache_ - size_used)

\* the offsets first_ has passed on its way from first to first'
SteppedOver(p) ==
    IF first <= first' THEN first <= p /\ p < first'
    ELSE p >= first \/ p < first'

\* the headers and index entries a call has changed
ChangedHdrs   == {p \in Offsets : mem'[p] # mem[p]}
ErasedSeqnos  == {s \in Seqnos : seqno2ptr[s] # Null /\ seqno2ptr'[s] = Null}

\* what a failed get_new_buffer leaves as it was
FailedFinderKeeps ==
    /\ next' = next
    /\ mem'[next] = mem[next]
    /\ held' = held
    /\ size_used' = size_used
    /\ size_trail' = IF next' >= first' THEN 0 ELSE size_trail
    /\ \A s \in Seqnos : seqno2ptr'[s] \in {seqno2ptr[s], Null}
    /\ \A p \in ChangedHdrs :
          /\ BH_is_released(mem[p])
          /\ mem'[p] = [mem[p] EXCEPT !.seqno_g = SEQNO_ILL]
    /\ size_free' = size_free + SumSizes(mem, ChangedHdrs)

\* C31 as stated: a get_new_buffer that returns null leaves next_ and the
\* clear marker at next_ alone, creates no buffer, leaves size_trail_ 0 when
\* next_ >= first_ and as it was when next_ < first_, and changes nothing
\* but the released buffers first_ has stepped over, which are discarded.
C31_FailedFinderFrame ==
    [][(last'.op = "malloc" /\ last'.ret = Null /\ FinderCalled(last'.size))
         => /\ FailedFinderKeeps
            /\ \A p \in ChangedHdrs : SteppedOver(p)
            /\ \A s \in ErasedSeqnos : SteppedOver(seqno2ptr[s])]_vars

\* C31: a get_new_buffer that returns null leaves next_ and the clear
\* marker at next_ alone, creates no buffer, leaves size_trail_ 0 when
\* next_ >= first_ and as it was when next_ < first_, and changes nothing
\* but released ordered buffers, which discard_seqno discards: the indexed
\* released buffers with a seqno up to that of a released buffer first_ has
\* stepped over or stopped at, wherever they lie.  A buffer first_ has stepped over is released and,
\* unless it was ordered and had lost its index entry, empty.
C31_FailedFinderDiscards ==
    [][(last'.op = "malloc" /\ last'.ret = Null /\ FinderCalled(last'.size))
         => /\ FailedFinderKeeps
            /\ \A p \in Offsets : SteppedOver(p) /\ mem[p].size > 0
                  => /\ BH_is_released(mem'[p])
                     /\ \/ mem'[p].seqno_g = SEQNO_ILL
                        \/ /\ mem[p].seqno_g > 0
                           /\ seqno2ptr[mem[p].seqno_g] # p
            /\ \A p \in ChangedHdrs :
                  \E s \in ErasedSeqnos :
                     /\ seqno2ptr[s] = p
                     /\ \E q \in Offsets :
                           /\ SteppedOver(q) \/ q = first'
                           /\ BH_is_released(mem[q])
                           /\ mem[q].seqno_g >= s
            /\ \A s \in ErasedSeqnos :
                  /\ seqno2ptr[s] \in ChangedHdrs
                  /\ \A t \in IndexSet(seqno2ptr) : t < s => t \in ErasedSeqnos]_vars

\* a failed malloc has erased two index entries and discarded their buffers
\* while first_ stepped over one buffer only and stopped at one in use
C31_Witness ==
    /\ last.op = "malloc"
    /\ last.ret = Null
    /\ last.n >= 2
    /\ mem[start_].size = 3
    /\ first = start_ + 3
    /\ first \in held
    /\ next >= first
    /\ size_trail = 0

\* ------------------------------------------------------------ C32
\* the offsets of the ring from f up to n, the trail left out
Between(f, n, trail, p) ==
    IF f <= n THEN f <= p /\ p < n
    ELSE (p >= f /\ p < end_ - trail) \/ p < n

\* C32: a seqno_reset called with ordered buffers, all of them released,
\* ends with the ring fully reset (first_ = next_ = start_), or with first_
\* at the first unreleased buffer, which has size > 0 and seqno_g = NONE;
\* first_ is on no clear marker but the one at next_, and no buffer from
\* first_ to next_ keeps a positive seqno.
C32_ResetFindsUnreleased ==
    [][(last'.op = "seqno_reset" /\ IndexSet(seqno2ptr) # {}) =>
         /\ \/ first' = start_ /\ next' = start_
            \/ /\ first' # next'
               /\ mem'[first'].size > 0
               /\ ~BH_is_released(mem'[first'])
               /\ mem'[first'].seqno_g = SEQNO_NONE
         /\ BH_is_clear(mem'[first']) => first' = next'
         /\ \A p \in Offsets :
               Between(first', next', size_trail', p) => mem'[p].seqno_g <= 0]_vars

\* ------------------------------------------------------------ C33
\* C33: the preamble on file has synced = 1 only as close_preamble has
\* written it: every write while the ring buffer is open (the end of
\* open_preamble, seqno_reset and its reset, rotate_master_key) writes
\* synced = 0 with no seqno range and no offset, so that the preamble of an
\* open ring buffer, and the one a process that dies leaves behind, has
\* synced = 0.
C33_SyncedOnlyByClose ==
    /\ [](mpc \in {"open", "rotating"} =>
             ~preamble.synced /\ ~preamble.range)
    /\ [](mlast.op = "crash" => ~preamble.synced /\ ~preamble.range)
    /\ [][/\ (preamble'.synced /\ preamble' # preamble /\ mlast'.op # "damage")
                => mlast'.op = "close"
          /\ (preamble'.synced /\ ~preamble.synced) => mlast'.op = "close"
          /\ mlast'.op \in {"seqno_reset", "rotate"} /\ ~mlast'.ret
                => preamble' = write_preamble(rbenc', FALSE)
          /\ mlast'.op = "open" /\ ~mlast'.ret
                => ~preamble'.synced /\ ~preamble'.range]_vars

\* an encrypted ring buffer has rotated its Master Key and the process has
\* died
C33_Witness ==
    /\ mlast.op = "crash"
    /\ ~preamble.synced
    /\ preamble.enc_encrypted
    /\ preamble.mk_id >= 2

\* ------------------------------------------------------------ C34
\* C34: when realloc(p, k) has moved the payload to a new buffer, the old
\* buffer at p is freed as free() leaves a buffer that was handed to it:
\* the RELEASED flag is set and the buffer is empty (seqno_g = ILL), the
\* caller no longer holds it, and size_used_ has grown by the new size less
\* the old one.
C34_RelocateFreesOld ==
    [][(last'.op = "realloc" /\ last'.ret \notin {Null, last'.ptr}) =>
         LET p == last'.ptr
         IN  /\ p \notin held'
             /\ mem'[p].size = mem[p].size
             /\ BH_is_released(mem'[p])
             /\ mem'[p].seqno_g = SEQNO_ILL
             /\ size_used' = size_used + last'.size - mem[p].size]_vars

\* ------------------------------------------------------------ C35
\* the recovery scan of a restart: the offset that the preamble gives it
ScanOffset(clean) ==
    IF clean /\ IndexSet(seqno2ptr) # {} THEN first - start_ ELSE -1

C36_SpaceAccounting ==
    /\ size_used = SumSizes(mem, held)
    /\ Accounted = size_cache_
    /\ 0 <= size_used /\ size_used <= size_cache_
    /\ 0 <= size_free /\ size_free <= size_cache_

\* ------------------------------------------------------------ C37
\* the threads inside rotate_master_key or write_preamble, past the lock
\* (the rotator comes to the lock of write_preamble from inside
\* rotate_master_key)
InRotation ==
    {t \in RotThreads :
        /\ rthr[t].pc \notin {"idle", "closed", "rot_lock"}
        /\ ~(t = "writer" /\ rthr[t].pc = "wp_lock")}

\* the preamble names a Master Key of the keyring under which its wrapped
\* file key gives the file key in use
ConsistentPair(pre) ==
    /\ rkeys[pre.mk_id] # 0
    /\ decrypt_key(decode64(pre.file_key), KeyStr(rkeys[pre.mk_id]))
          = FileKeyInUse

\* C37: rotate_master_key and write_preamble exclude each other through
\* mk_rotation_mutex_: one thread at most is inside them, it owns the
\* mutex, and every preamble on file holds a consistent pair: its wrapped
\* file key decrypts, under the Master Key its enc_mk_id names, to the file
\* key in use.
C37_RotationAtomic ==
    /\ Cardinality(InRotation) <= 1
    /\ \A t \in InRotation : mk_rotation_mutex_.owner = t
    /\ InRotation = {} => mk_rotation_mutex_ = RotMutexFree
    /\ ConsistentPair(rpre)

\* the writer has asked for the mutex while the rotator, having counted
\* master_key_id_ up, has not yet wrapped the file key with the new Master
\* Key, which differs from the old one
C37_Witness ==
    /\ rthr["rotator"].pc = "rot_wrap"
    /\ rthr["writer"].pc = "wp_lock"
    /\ rkeys[rmk.master_key_id_] # rkeys[rmk.master_key_id_ - 1]
    /\ ~ConsistentPair([synced |-> FALSE, mk_id |-> rmk.master_key_id_,
                        file_key |-> rmk.file_key_])

\* ------------------------------------------------------------ C38
\* C38: when the worker has executed a release that was requested with
\* reset == true, and no later request has replaced it, the stored release
\* seqno and reset flag of the ServiceThd are cleared, so that the next
\* release_seqno with a seqno not above the executed one is scheduled.
C38_ClearedAfterReset ==
    [][(/\ wk.pc = "rs"
        /\ wk'.pc = "top"
        /\ wk.data.clear_release_seqno_
        /\ data_.release_seqno_ = wk.data.release_seqno_)
       => (/\ data_'.release_seqno_ = 0
           /\ ~data_'.clear_release_seqno_)]_vars

\* ------------------------------------------------------------ C39
\* C39: while the worker thread is running, every thread that waits in
\* flush() returns, whatever the other threads call in between: a reset()
\* that drops the scheduled actions does not leave it waiting on flush_.
C39_FlushReturns ==
    \A c \in Flushers :
        (fl[c].pc = "wait") ~> (fl[c].pc = "out" \/ wk.pc = "exited")

\* ------------------------------------------------------------ C40
\* C40: the destruction of a SocketWatchdog terminates: once the destructor
\* has cleared alive_ the timer thread exits and the join returns; and a
\* start() made while the expiry callback is running is not lost: when the
\* callback has completed the watchdog is active.
C40_DestructionTerminates ==
    /\ (wdtor = "join") ~> (wdtor = "joined")
    /\ [][(tmr.pc = "callback" /\ tmr'.pc = "outer"
             /\ wlast.op = "start" /\ wlast.in_cb) => active_']_vars
====
